---- MODULE Spec2Model ----
(***************************************************************************)
(* Vulnerability-data aggregation engine of sidra4040/studio: the findings *)
(* cache, the paginator, the product resolver and the exported operations  *)
(* of src/services/defectdojo.ts and its flows, as state machines.         *)
(***************************************************************************)
EXTENDS Integers, Sequences, FiniteSets, TLC

(***************************************************************************)
(* Bounds of the model.                                                    *)
(***************************************************************************)
NCallers == 2      \* calls of getCachedAllFindings under way at once
MaxRefreshes == 2  \* refreshes of the cache started in one behaviour
MaxBatch == 2      \* raw records the findings endpoint serves to one refresh
MaxTicks == 1      \* clock advances in one behaviour
MaxRequests == 3   \* requests one call of defectDojoFetchAll may issue
MaxPageSize == 2   \* records on one upstream page
MaxCalls == 3      \* upstream calls of one operation that may fail one by one
MaxFindings == 2   \* findings the upstream holds for one operation
MaxLimit == 2      \* the `limit` given to getFindings
MaxKpiFindings == 3 \* findings of the cache that getKpiData reads
MaxAnalysisFindings == 2 \* findings the upstream answers an analysis with
MaxRiskFindings == 3 \* findings of the cache that the risk analyses read
MaxCachedFindings == 2 \* findings the upstream serves to a refresh of the cache-backed service
MaxQueries == 2    \* calls of the cache-backed service in one behaviour
MaxLoopRecords == 3 \* records the upstream serves to one call of defectDojoFetchAll, in all

\* findingsCache.ttl, in milliseconds.
ttl == 5 * 60 * 1000

\* Date.now() when the module is loaded: later than ttl after the epoch, so
\* that the never-populated cache (lastFetched: 0) is stale.
StartTime == 2 * ttl

\* The steps by which the clock advances between two events.
TickSteps == {1, ttl}

VARIABLES
    clock,          \* Date.now()
    ticks,          \* clock advances so far
    findingsCache,  \* [findings, lastFetched]: the module-level cache object
    frames,         \* the calls of getCachedAllFindings under way, each with
                    \* its locals: [rid, now, results, pc]
    refreshes,      \* paginated fetches of the findings endpoint started so far
    returned,       \* the outcome of the call that ended last
    warned          \* the parsing errors the latest refresh warned of

cacheVars == <<clock, ticks, findingsCache, frames, refreshes, returned, warned>>

VARIABLES
    fpc,            \* defectDojoFetchAll: "idle", "waiting", "returned", "thrown"
    nextUrl,        \* its `nextUrl` local
    allResults,     \* its `allResults` local
    requests,       \* the URLs it has requested, in order
    served,         \* what the upstream answered to each request, in order
    fret            \* what the call returned or threw

fetchVars == <<fpc, nextUrl, allResults, requests, served, fret>>

VARIABLES
    op,             \* the operation called last: its name, input and upstream
    out,            \* what it returned or threw
    log             \* the upstream calls it made, in order

opsVars == <<op, out, log>>

vars == <<cacheVars, fetchVars, opsVars>>

NoReturn == [kind |-> "none", findings |-> <<>>]

(***************************************************************************)
(* Findings cache: getCachedAllFindings.                                   *)
(***************************************************************************)

\* The cache object as declared: no findings, lastFetched 0.
EmptyCache == [findings |-> <<>>, lastFetched |-> 0]

\* The guard of the cached return.
IsFresh(cache, n) ==
    Len(cache.findings) > 0 /\ n - cache.lastFetched < ttl

\* FindingSchema.safeParse(finding).success: whether the raw record has the
\* shape of a finding is an attribute of the record the upstream served.
safeParse(finding) == finding.ok

\* The loop over allRawFindings: a record that parses is pushed to
\* successfullyParsedFindings, any other to parsingErrors.
RECURSIVE ParseLoop(_, _, _)
ParseLoop(raw, good, errs) ==
    IF raw = <<>>
    THEN [successfullyParsedFindings |-> good, parsingErrors |-> errs]
    ELSE IF safeParse(Head(raw))
         THEN ParseLoop(Tail(raw), Append(good, Head(raw)), errs)
         ELSE ParseLoop(Tail(raw), good, Append(errs, Head(raw).idx))

\* A botched validation: one malformed record rejects the whole batch.
ParseAllOrNothing(allRawFindings) ==
    IF \A i \in 1..Len(allRawFindings) : safeParse(allRawFindings[i])
    THEN [successfullyParsedFindings |-> allRawFindings, parsingErrors |-> <<>>]
    ELSE [successfullyParsedFindings |-> <<>>,
          parsingErrors |-> [i \in 1..Len(allRawFindings) |-> allRawFindings[i].idx]]

ParseFindings(allRawFindings) == ParseLoop(allRawFindings, <<>>, <<>>)

\* A botched refresh: the new records are merged into the cached ones.
MergeCache(cache, parsed, n) ==
    [findings |-> cache.findings \o parsed, lastFetched |-> n]

\* The two assignments that end a refresh; no await separates them.
ReplaceCache(cache, parsed, n) ==
    [findings |-> parsed, lastFetched |-> n]

\* A page of the findings endpoint served to refresh r, which started at t:
\* n raw records, each well-formed or not, numbered on from the `base`
\* records served before. rid, at and idx only name the record.
FindingsPage(r, t, base, n, oks) ==
    [i \in 1..n |-> [rid |-> r, at |-> t, idx |-> base + i, ok |-> oks[i]]]

CacheIdle ==
    /\ clock = StartTime
    /\ ticks = 0
    /\ findingsCache = EmptyCache
    /\ frames = {}
    /\ refreshes = 0
    /\ returned = NoReturn
    /\ warned = 0

\* A call of getCachedAllFindings that finds the cache fresh: it returns the
\* cached collection at once and issues no request.
CallCached ==
    /\ IsFresh(findingsCache, clock)
    /\ returned' = [kind |-> "cached", findings |-> findingsCache.findings]
    /\ UNCHANGED <<clock, ticks, findingsCache, frames, refreshes, warned>>
    /\ UNCHANGED <<fetchVars, opsVars>>

\* A call of getCachedAllFindings that finds the cache stale or empty, up to
\* its first await: `now` is read and the first request of the paginated
\* fetch is issued. rid numbers the refresh.
CallRefresh ==
    /\ ~IsFresh(findingsCache, clock)
    /\ Cardinality(frames) < NCallers
    /\ refreshes < MaxRefreshes
    /\ refreshes' = refreshes + 1
    /\ frames' = frames \cup {[rid |-> refreshes + 1, now |-> clock,
                                results |-> <<>>, pc |-> "fetching"]}
    /\ UNCHANGED <<clock, ticks, findingsCache, returned, warned>>
    /\ UNCHANGED <<fetchVars, opsVars>>

\* The upstream answers the pending request of a paginated fetch with a
\* page {results, next}: the records are concatenated, and the loop either
\* requests the next page or ends. The endpoint names a next page only
\* after a page that holds records.
Respond(f) ==
    /\ f.pc = "fetching"
    /\ \E n \in 0..(MaxBatch - Len(f.results)), hasNext \in BOOLEAN :
       \E oks \in [1..n -> BOOLEAN] :
          /\ hasNext => (n >= 1 /\ Len(f.results) + n < MaxBatch)
          /\ frames' = (frames \ {f}) \cup
                {[f EXCEPT !.results = f.results \o
                                FindingsPage(f.rid, f.now, Len(f.results), n, oks),
                           !.pc = IF hasNext THEN "fetching" ELSE "parsing"]}
    /\ UNCHANGED <<clock, ticks, findingsCache, refreshes, returned, warned>>
    /\ UNCHANGED <<fetchVars, opsVars>>

\* A failure that is swallowed: the caller is handed what the cache holds.
RespondErrorStale(f) ==
    /\ f.pc = "fetching"
    /\ returned' = [kind |-> "cached", findings |-> findingsCache.findings]
    /\ frames' = frames \ {f}
    /\ UNCHANGED <<clock, ticks, findingsCache, refreshes, warned>>
    /\ UNCHANGED <<fetchVars, opsVars>>

\* The pending request of a paginated fetch fails: defectDojoFetch throws,
\* and the error leaves defectDojoFetchAll and getCachedAllFindings.
RespondError(f) ==
    /\ f.pc = "fetching"
    /\ returned' = [kind |-> "error", findings |-> <<>>]
    /\ frames' = frames \ {f}
    /\ UNCHANGED <<clock, ticks, findingsCache, refreshes, warned>>
    /\ UNCHANGED <<fetchVars, opsVars>>

\* The rest of getCachedAllFindings after the paginated fetch: validation of
\* every raw record, the warning, the replacement of the cache, the return.
Commit(f) ==
    /\ f.pc = "parsing"
    /\ LET parsed == ParseFindings(f.results)
           good == parsed.successfullyParsedFindings
       IN /\ findingsCache' = ReplaceCache(findingsCache, good, f.now)
          /\ warned' = Len(parsed.parsingErrors)
          /\ returned' = [kind |-> "fetched", findings |-> good]
    /\ frames' = frames \ {f}
    /\ UNCHANGED <<clock, ticks, refreshes>>
    /\ UNCHANGED <<fetchVars, opsVars>>

\* Time passes.
Tick ==
    /\ ticks < MaxTicks
    /\ \E d \in TickSteps : clock' = clock + d
    /\ ticks' = ticks + 1
    /\ UNCHANGED <<findingsCache, frames, refreshes, returned, warned>>
    /\ UNCHANGED <<fetchVars, opsVars>>

CacheNext ==
    \/ CallCached
    \/ CallRefresh
    \/ \E f \in frames : Respond(f)
    \/ \E f \in frames : RespondError(f)
    \/ \E f \in frames : Commit(f)
    \/ Tick

(***************************************************************************)
(* Paginator: defectDojoFetch and defectDojoFetchAll.                      *)
(***************************************************************************)

\* The URLs of the upstream's pages; a call starts at the first. Null
\* stands for the null of `string | null`.
Null == 0
Urls == 1..MaxRequests
initialRelativeUrl == 1

\* The n records of the page served to the k-th request.
Records(k, n) == [i \in 1..n |-> <<k, i>>]

\* The bodies the upstream may answer the k-th request with: a bare array,
\* or an object that may have a `results` list, may have a `next` (null or
\* a URL) and may have other properties (`count`, ...).
Bodies(k) ==
    {[isArray |-> TRUE, hasResults |-> FALSE, results |-> Records(k, n),
      hasNext |-> FALSE, next |-> Null, otherKeys |-> 0] : n \in 0..MaxPageSize}
    \cup
    {[isArray |-> FALSE, hasResults |-> TRUE, results |-> Records(k, n),
      hasNext |-> hn, next |-> nx, otherKeys |-> 1] :
        n \in 0..MaxPageSize, hn \in BOOLEAN, nx \in {Null} \cup Urls}
    \cup
    {[isArray |-> FALSE, hasResults |-> FALSE, results |-> <<>>,
      hasNext |-> hn, next |-> nx, otherKeys |-> c] :
        hn \in BOOLEAN, nx \in {Null} \cup Urls, c \in 0..1}

\* A body as JSON writes it: the next of an object without a `next`
\* property is no URL.
WellWritten(data) == data.hasNext \/ data.next = Null

\* What defectDojoFetch throws: the upstream is not configured, or the
\* response is not ok (its status and body are in the message).
TransportErrors ==
    {[kind |-> "not configured", status |-> 0, body |-> ""],
     [kind |-> "http", status |-> 401, body |-> "Invalid token"],
     [kind |-> "http", status |-> 500, body |-> "Server Error"]}

\* A paginator that reads `data.results` only: a bare array yields nothing.
PageResultsOfObject(data) ==
    IF data.hasResults THEN [defined |-> TRUE, list |-> data.results]
    ELSE [defined |-> FALSE, list |-> <<>>]

\* Array.isArray(data) ? data : data.results (undefined without the property)
PageResults(data) ==
    IF data.isArray \/ data.hasResults
    THEN [defined |-> TRUE, list |-> data.results]
    ELSE [defined |-> FALSE, list |-> <<>>]

\* results && results.length > 0
HasRecords(data) == PageResults(data).defined /\ Len(PageResults(data).list) > 0

\* 'next' in data
HasNext(data) == ~data.isArray /\ data.hasNext

\* Object.keys(data).length, for an object
KeyCount(data) ==
    (IF data.hasResults THEN 1 ELSE 0) + (IF data.hasNext THEN 1 ELSE 0)
        + data.otherKeys

\* The early return of the loop: a non-empty object with neither `results`
\* nor `next` is returned alone.
IsSingleObject(data) ==
    /\ ~HasRecords(data)
    /\ ~HasNext(data)
    /\ ~data.isArray
    /\ KeyCount(data) > 0
    /\ ~data.hasResults

\* allResults after the page: allResults.push(...results)
Pushed(all, data) ==
    IF HasRecords(data) THEN all \o PageResults(data).list ELSE all

\* nextUrl after the page: ('next' in data && data.next) ? data.next : null
NextOf(data) ==
    IF HasNext(data) /\ data.next # Null THEN data.next ELSE Null

\* A catch that swallows the error and returns the pages fetched so far.
ReturnPartial(all, err) == [kind |-> "value", results |-> all]

\* The error thrown by defectDojoFetch leaves the loop: nothing catches it.
Thrown(all, err) == [kind |-> "error", error |-> err]

FetchIdle ==
    /\ fpc = "idle"
    /\ nextUrl = Null
    /\ allResults = <<>>
    /\ requests = <<>>
    /\ served = <<>>
    /\ fret = [kind |-> "none"]

\* defectDojoFetchAll(initialRelativeUrl) up to its first await: when the
\* upstream is configured the first request is issued, otherwise
\* defectDojoFetch throws at once.
FetchStart ==
    /\ fpc = "idle"
    /\ allResults' = <<>>
    /\ \E configured \in BOOLEAN :
          IF configured
          THEN /\ fpc' = "waiting"
               /\ nextUrl' = initialRelativeUrl
               /\ requests' = <<initialRelativeUrl>>
               /\ UNCHANGED <<served, fret>>
          ELSE LET err == [kind |-> "not configured", status |-> 0, body |-> ""]
               IN /\ fpc' = "thrown"
                  /\ fret' = Thrown(<<>>, err)
                  /\ UNCHANGED <<nextUrl, requests, served>>
    /\ UNCHANGED <<cacheVars, opsVars>>

\* The pending request is answered with a body: one turn of the loop, and
\* either the next request, the early return or the return after the loop.
FetchRespond ==
    /\ fpc = "waiting"
    /\ \E data \in Bodies(Len(requests)) :
          /\ WellWritten(data)
          /\ served' = Append(served, [kind |-> "data", data |-> data])
          /\ IF IsSingleObject(data)
             THEN /\ fpc' = "returned"
                  /\ fret' = [kind |-> "value", results |-> <<data>>]
                  /\ UNCHANGED <<nextUrl, allResults, requests>>
             ELSE /\ allResults' = Pushed(allResults, data)
                  /\ nextUrl' = NextOf(data)
                  /\ IF NextOf(data) # Null
                     THEN /\ Len(requests) < MaxRequests
                          /\ requests' = Append(requests, NextOf(data))
                          /\ UNCHANGED <<fpc, fret>>
                     ELSE /\ fpc' = "returned"
                          /\ fret' = [kind |-> "value", results |-> Pushed(allResults, data)]
                          /\ UNCHANGED requests
    /\ UNCHANGED <<cacheVars, opsVars>>

\* The pending request fails: the response is not ok.
FetchFail ==
    /\ fpc = "waiting"
    /\ \E err \in {e \in TransportErrors : e.kind = "http"} :
          /\ served' = Append(served, [kind |-> "failure", error |-> err])
          /\ LET outcome == Thrown(allResults, err)
             IN /\ fret' = outcome
                /\ fpc' = IF outcome.kind = "error" THEN "thrown" ELSE "returned"
    /\ UNCHANGED <<nextUrl, allResults, requests>>
    /\ UNCHANGED <<cacheVars, opsVars>>

FetchNext ==
    \/ FetchStart
    \/ FetchRespond
    \/ FetchFail

(***************************************************************************)
(* Strings, as sequences of characters, and the string functions the       *)
(* resolver uses.                                                          *)
(***************************************************************************)

UpperChars == <<"A", "B", "C", "D", "E", "F", "G", "H", "I", "J", "K", "L", "M", "N", "O", "P", "Q", "R", "S", "T", "U", "V", "W", "X", "Y", "Z">>
LowerChars == <<"a", "b", "c", "d", "e", "f", "g", "h", "i", "j", "k", "l", "m", "n", "o", "p", "q", "r", "s", "t", "u", "v", "w", "x", "y", "z">>
DigitChars == <<"0", "1", "2", "3", "4", "5", "6", "7", "8", "9">>
OtherChars == <<" ", "-", "_", "(", ")", ",", ".", "/">>

Range(s) == {s[i] : i \in 1..Len(s)}
Chars == Range(UpperChars) \cup Range(LowerChars) \cup Range(DigitChars) \cup Range(OtherChars)

IndexIn(s, c) == CHOOSE i \in 1..Len(s) : s[i] = c

\* String.prototype.toLowerCase, a character at a time.
LowerOf == [c \in Chars |-> IF c \in Range(UpperChars) THEN LowerChars[IndexIn(UpperChars, c)] ELSE c]
UpperOf == [c \in Chars |-> IF c \in Range(LowerChars) THEN UpperChars[IndexIn(LowerChars, c)] ELSE c]

toLowerCase(s) == [i \in 1..Len(s) |-> LowerOf[s[i]]]
toUpperCase(s) == [i \in 1..Len(s) |-> UpperOf[s[i]]]

\* \s of the regular expressions, within Chars.
IsSpace(c) == c = " "

\* String.prototype.trim
RECURSIVE trimStart(_)
trimStart(s) == IF s # <<>> /\ IsSpace(Head(s)) THEN trimStart(Tail(s)) ELSE s
RECURSIVE trimEnd(_)
trimEnd(s) ==
    IF s # <<>> /\ IsSpace(s[Len(s)]) THEN trimEnd(SubSeq(s, 1, Len(s) - 1)) ELSE s
trim(s) == trimEnd(trimStart(s))

\* The characters .replace(/[\s\-_]/g, '') keeps.
NotSeparator(c) == ~(IsSpace(c) \/ c = "-" \/ c = "_")

\* s.replace(/[\s\-_]/g, '')
stripSeparators(s) == SelectSeq(s, NotSeparator)

\* String(n), for a natural number n.
RECURSIVE String(_)
String(n) ==
    IF n < 10 THEN <<DigitChars[n + 1]>>
    ELSE Append(String(n \div 10), DigitChars[(n % 10) + 1])

(***************************************************************************)
(* The static tables of defectdojo-maps.ts.                                *)
(***************************************************************************)

\* PRODUCT_MAP, in the order of its keys.
PRODUCT_MAP ==
    <<
      [key |-> <<"a", "c", "c", "u", "r", "h", "y", "t", "h", "m", "_", "z", "e", "l", "d", "a", "_", "a", "i">>,
       id |-> 7,
       name |-> <<"A", "c", "c", "u", "R", "h", "y", "t", "h", "m", " ", "Z", "e", "l", "d", "a", " ", "A", "I">>],
      [key |-> <<"a", "z", "u", "r", "e", "_", "a", "s", "t", "r", "a">>,
       id |-> 18,
       name |-> <<"A", "z", "u", "r", "e", " ", "A", "s", "t", "r", "a">>],
      [key |-> <<"c", "l", "e", "m">>,
       id |-> 10,
       name |-> <<"C", "L", "E", "M">>],
      [key |-> <<"c", "a", "r", "e", "l", "i", "n", "k", "_", "n", "e", "t", "w", "o", "r", "k">>,
       id |-> 1,
       name |-> <<"C", "a", "r", "e", "l", "i", "n", "k", " ", "N", "e", "t", "w", "o", "r", "k">>],
      [key |-> <<"d", "l", "u", "t">>,
       id |-> 5,
       name |-> <<"D", "e", "v", "i", "c", "e", " ", "L", "o", "o", "k", "u", "p", " ", "T", "o", "o", "l", "(", "D", "L", "U", "T", ")">>],
      [key |-> <<"e", "v", "i", "c", "d">>,
       id |-> 17,
       name |-> <<"E", "V", "I", "C", "D">>],
      [key |-> <<"l", "i", "n", "q", "_", "m", "o", "b", "i", "l", "e", "_", "m", "a", "n", "a", "g", "e", "r">>,
       id |-> 9,
       name |-> <<"L", "i", "n", "q", " ", "M", "o", "b", "i", "l", "e", " ", "M", "a", "n", "a", "g", "e", "r">>],
      [key |-> <<"m", "c", "l", "h">>,
       id |-> 11,
       name |-> <<"M", "C", "L", "H">>],
      [key |-> <<"m", "c", "l", "s">>,
       id |-> 3,
       name |-> <<"M", "C", "L", "S">>],
      [key |-> <<"m", "a", "s">>,
       id |-> 6,
       name |-> <<"M", "e", "d", "t", "r", "o", "n", "i", "c", " ", "A", "p", "p", "l", "i", "c", "a", "t", "i", "o", "n", " ", "S", "e", "r", "v", "i", "c", "e", "s", "(", "M", "A", "S", ")">>],
      [key |-> <<"m", "l", "i", "f", "e">>,
       id |-> 19,
       name |-> <<"M", "l", "i", "f", "e">>],
      [key |-> <<"m", "y", "c", "a", "r", "e", "l", "i", "n", "k", "_", "r", "e", "l", "a", "y">>,
       id |-> 4,
       name |-> <<"M", "y", "C", "a", "r", "e", "L", "i", "n", "k", " ", "R", "e", "l", "a", "y">>],
      [key |-> <<"m", "y", "c", "a", "r", "e", "l", "i", "n", "k", "_", "p", "a", "t", "i", "e", "n", "t", "_", "m", "o", "n", "i", "t", "o", "r">>,
       id |-> 2,
       name |-> <<"M", "y", "C", "a", "r", "e", "L", "i", "n", "k", "_", "P", "a", "t", "i", "e", "n", "t", "_", "M", "o", "n", "i", "t", "o", "r">>],
      [key |-> <<"p", "a", "t", "i", "e", "n", "t", "_", "c", "o", "n", "n", "e", "c", "t", "o", "r", "_", "2", "4", "9", "6", "5">>,
       id |-> 16,
       name |-> <<"P", "a", "t", "i", "e", "n", "t", " ", "C", "o", "n", "n", "e", "c", "t", "o", "r", " ", "2", "4", "9", "6", "5">>],
      [key |-> <<"p", "a", "t", "i", "e", "n", "t", "_", "c", "o", "n", "n", "e", "c", "t", "o", "r", "_", "2", "4", "9", "6", "7">>,
       id |-> 14,
       name |-> <<"P", "a", "t", "i", "e", "n", "t", " ", "C", "o", "n", "n", "e", "c", "t", "o", "r", " ", "2", "4", "9", "6", "7">>],
      [key |-> <<"p", "a", "t", "i", "e", "n", "t", "_", "m", "e", "s", "s", "a", "g", "i", "n", "g">>,
       id |-> 8,
       name |-> <<"P", "a", "t", "i", "e", "n", "t", " ", "M", "e", "s", "s", "a", "g", "i", "n", "g">>],
      [key |-> <<"s", "m", "a", "r", "t", "_", "r", "e", "a", "d", "e", "r", "_", "2", "5", "0", "0", "0">>,
       id |-> 15,
       name |-> <<"S", "m", "a", "r", "t", " ", "R", "e", "a", "d", "e", "r", " ", "2", "5", "0", "0", "0">>],
      [key |-> <<"s", "m", "a", "r", "t", "_", "s", "y", "n", "c">>,
       id |-> 12,
       name |-> <<"S", "m", "a", "r", "t", " ", "S", "y", "n", "c">>],
      [key |-> <<"s", "m", "a", "r", "t", "_", "s", "y", "n", "c", "_", "b", "a", "s", "e">>,
       id |-> 13,
       name |-> <<"S", "m", "a", "r", "t", " ", "S", "y", "n", "c", " ", "B", "a", "s", "e">>]
    >>

(***************************************************************************)
(* The upstream, as one operation sees it.                                 *)
(***************************************************************************)

NoError == [kind |-> "none", status |-> 0, body |-> ""]
NotConfigured == [kind |-> "not configured", status |-> 0, body |-> ""]
HttpErrors == {e \in TransportErrors : e.kind = "http"}
NoProduct == [id |-> 0, name |-> <<>>]

\* Products the upstream holds beside those of the static table, in the
\* order it lists them; one has no name.
LiveProducts ==
    << [id |-> 21, name |-> <<"Z", "e", "t", "a", " ", "A", "p", "p", " ", "M", "o", "b", "i", "l", "e">>],
       [id |-> 20, name |-> <<"Z", "e", "t", "a", " ", "A", "p", "p">>],
       [id |-> 22, name |-> <<>>],
       [id |-> 3, name |-> <<"M", "C", "L", "S">>] >>

\* Findings the upstream may hold: [id, severity, cwe, cvssv3_score, tool],
\* cwe 0 for null, the score in tenths and 0 for null, tool the name of the
\* test type.
SomeFindings ==
    { [id |-> 1, severity |-> "Critical", cwe |-> 79, cvssv3_score |-> 98, tool |-> "Trivy Scan"],
      [id |-> 2, severity |-> "Unrated", cwe |-> 0, cvssv3_score |-> 0, tool |-> "Trivy Scan"] }

RECURSIVE SeqsUpTo(_, _)
SeqsUpTo(S, n) ==
    IF n = 0 THEN {<<>>}
    ELSE LET shorter == SeqsUpTo(S, n - 1)
         IN  shorter \cup {Append(s, x) : s \in shorter, x \in S}

\* The upstream outcomes of one operation: whether the URL and key are
\* configured, which of its calls (by ordinal) get a response that is not ok
\* and with what status and body, and what the upstream holds.
Envs ==
    LET worlds == [products : {<<>>, LiveProducts}, findings : SeqsUpTo(SomeFindings, MaxFindings)]
        faults == {[configured |-> TRUE, failAt |-> {}, error |-> NoError],
                   [configured |-> FALSE, failAt |-> {}, error |-> NotConfigured]}
                  \cup {[configured |-> TRUE, failAt |-> {k}, error |-> e] : k \in 1..MaxCalls, e \in HttpErrors}
                  \cup {[configured |-> TRUE, failAt |-> 1..MaxCalls, error |-> e] : e \in HttpErrors}
    IN  {[configured |-> f.configured, failAt |-> f.failAt, error |-> f.error,
          products |-> w.products, findings |-> w.findings] : f \in faults, w \in worlds}

\* The environments that differ for an operation that reads no findings.
ProductEnvs == {env \in Envs : env.findings = <<>>}

\* The outcome of the n-th upstream call of an operation in environment env:
\* defectDojoFetch throws when the upstream is not configured or when the
\* response is not ok; defectDojoFetchAll passes the error on. `product`,
\* `severity` and `tool` are the filters of the query (0 and "" for none).
Upstream(env, endpoint, product, severity, tool, n) ==
    LET filters == [endpoint |-> endpoint, product |-> product, severity |-> severity, tool |-> tool]
    IN  IF ~env.configured
        THEN [query |-> filters, ok |-> FALSE, error |-> NotConfigured]
        ELSE IF n \in env.failAt
        THEN [query |-> filters, ok |-> FALSE, error |-> env.error]
        ELSE [query |-> filters, ok |-> TRUE, error |-> NoError]

\* What the upstream answers to a findings query with these filters, in its
\* own order: the query names none.
FindingsFor(env, severity, tool) ==
    LET Wanted(f) == /\ severity = "" \/ f.severity = severity
                     /\ tool = "" \/ f.tool = tool
    IN  SelectSeq(env.findings, Wanted)

(***************************************************************************)
(* defectDojoFetchAll against an upstream that never stops naming a next   *)
(* page: the loop with nothing recorded but what the code keeps.           *)
(***************************************************************************)

\* defectDojoFetchAll(initialRelativeUrl) up to its first await.
LoopStart ==
    /\ fpc = "idle"
    /\ allResults' = <<>>
    /\ \E configured \in BOOLEAN :
          IF configured
          THEN /\ fpc' = "waiting"
               /\ nextUrl' = initialRelativeUrl
               /\ UNCHANGED fret
          ELSE /\ fpc' = "thrown"
               /\ fret' = Thrown(<<>>, NotConfigured)
               /\ UNCHANGED nextUrl
    /\ UNCHANGED <<requests, served>>
    /\ UNCHANGED <<cacheVars, opsVars>>

\* The request of nextUrl is answered with a body, any the upstream may
\* write, the URL of a page already fetched included: one turn of the
\* loop. The upstream serves MaxLoopRecords records at most in all.
LoopRespond ==
    /\ fpc = "waiting"
    /\ \E data \in Bodies(nextUrl) :
          /\ WellWritten(data)
          /\ Len(allResults) + Len(data.results) <= MaxLoopRecords
          /\ IF IsSingleObject(data)
             THEN /\ fpc' = "returned"
                  /\ fret' = [kind |-> "value", results |-> <<data>>]
                  /\ UNCHANGED <<nextUrl, allResults>>
             ELSE /\ allResults' = Pushed(allResults, data)
                  /\ nextUrl' = NextOf(data)
                  /\ IF NextOf(data) # Null
                     THEN UNCHANGED <<fpc, fret>>
                     ELSE /\ fpc' = "returned"
                          /\ fret' = [kind |-> "value", results |-> Pushed(allResults, data)]
    /\ UNCHANGED <<requests, served>>
    /\ UNCHANGED <<cacheVars, opsVars>>

\* The request of nextUrl fails: the response is not ok.
LoopFail ==
    /\ fpc = "waiting"
    /\ \E err \in HttpErrors :
          /\ fret' = Thrown(allResults, err)
          /\ fpc' = "thrown"
    /\ UNCHANGED <<nextUrl, allResults, requests, served>>
    /\ UNCHANGED <<cacheVars, opsVars>>

LoopNext == LoopStart \/ LoopRespond \/ LoopFail

(***************************************************************************)
(* Entity resolver: getProductInfoByName.                                  *)
(***************************************************************************)

\* The condition of the loop over PRODUCT_MAP.
MapEntryMatches(entry, lowerProductName) ==
    \/ toLowerCase(entry.key) = lowerProductName
    \/ stripSeparators(toLowerCase(entry.name)) = lowerProductName

\* Array.prototype.find and the for loop, over the set of the indices that
\* pass the test: the first of them (0: none).
FirstIndex(passing) ==
    IF passing = {} THEN 0 ELSE CHOOSE i \in passing : \A j \in passing : i <= j

\* A resolver that goes upstream whatever the table holds.
getProductInfoByNameLiveOnly(productName, env, n) ==
    LET lowerProductName == stripSeparators(toLowerCase(trim(productName)))
        reply == Upstream(env, "products", 0, "", "", n)
        Found(p) == \/ stripSeparators(toLowerCase(p.name)) = lowerProductName
                    \/ String(p.id) = lowerProductName
        live == FirstIndex({i \in 1..Len(env.products) : Found(env.products[i])})
    IN  IF ~reply.ok
        THEN [found |-> FALSE, product |-> NoProduct, log |-> <<reply>>]
        ELSE IF live # 0
        THEN [found |-> TRUE, product |-> env.products[live], log |-> <<reply>>]
        ELSE [found |-> FALSE, product |-> NoProduct, log |-> <<reply>>]

\* getProductInfoByName(productName), making the n-th upstream call of an
\* operation if it makes one: the table entry the normalized name matches,
\* else the product of the live list whose normalized name or id it equals,
\* else null; an error of the live lookup is caught and gives null too.
\* `log` holds the upstream call it made, if any.
getProductInfoByName(productName, env, n) ==
    LET lowerProductName == stripSeparators(toLowerCase(trim(productName)))
        Hit(entry) == MapEntryMatches(entry, lowerProductName)
        inMap == FirstIndex({i \in 1..Len(PRODUCT_MAP) : Hit(PRODUCT_MAP[i])})
        reply == Upstream(env, "products", 0, "", "", n)
        Found(p) == \/ stripSeparators(toLowerCase(p.name)) = lowerProductName
                    \/ String(p.id) = lowerProductName
        live == FirstIndex({i \in 1..Len(env.products) : Found(env.products[i])})
    IN  IF inMap # 0
        THEN [found |-> TRUE,
              product |-> [id |-> PRODUCT_MAP[inMap].id, name |-> PRODUCT_MAP[inMap].name],
              log |-> <<>>]
        ELSE IF ~reply.ok
        THEN [found |-> FALSE, product |-> NoProduct, log |-> <<reply>>]
        ELSE IF live # 0
        THEN [found |-> TRUE, product |-> env.products[live], log |-> <<reply>>]
        ELSE [found |-> FALSE, product |-> NoProduct, log |-> <<reply>>]

(***************************************************************************)
(* The operations of the service and of its flows.  Each yields what it    *)
(* returns or throws (`out`) and the upstream calls it made (`log`), n     *)
(* being the ordinal of its first upstream call.                           *)
(***************************************************************************)

\* The order of String.prototype.localeCompare on Chars: characters compare
\* by their place in the collation first, whatever their case; strings equal
\* up to case compare by case, lower before upper.
Collation == OtherChars \o DigitChars \o LowerChars

Primary(s) == [i \in 1..Len(s) |-> IndexIn(Collation, LowerOf[s[i]])]

CaseRank(s) == [i \in 1..Len(s) |-> IF s[i] \in Range(UpperChars) THEN 1 ELSE 0]

\* Lexicographic order of sequences of numbers.
RECURSIVE LexLess(_, _)
LexLess(a, b) ==
    IF a = <<>> THEN b # <<>>
    ELSE IF b = <<>> THEN FALSE
    ELSE IF Head(a) # Head(b) THEN Head(a) < Head(b)
    ELSE LexLess(Tail(a), Tail(b))

\* a.localeCompare(b) < 0
localeCompareLess(a, b) ==
    IF Primary(a) # Primary(b) THEN LexLess(Primary(a), Primary(b))
    ELSE LexLess(CaseRank(a), CaseRank(b))

\* productList.sort((a, b) => a.name.localeCompare(b.name)): a stable sort.
RECURSIVE sortByName(_)
sortByName(list) ==
    IF list = <<>> THEN <<>>
    ELSE LET rest == sortByName(Tail(list))
             Before(p) == ~localeCompareLess(p.name, Head(list).name)
             k == FirstIndex({i \in 1..Len(rest) : Before(rest[i])})
         IN  IF k = 0 THEN Append(rest, Head(list))
             ELSE SubSeq(rest, 1, k - 1) \o <<Head(list)>> \o SubSeq(rest, k, Len(rest))

\* getProductList(): the named products of the upstream, sorted by name; an
\* error is caught and gives the empty list.
getProductList(env, n) ==
    LET reply == Upstream(env, "products", 0, "", "", n)
        HasName(p) == p.name # <<>>
    IN  IF reply.ok
        THEN [out |-> [kind |-> "result", value |-> sortByName(SelectSeq(env.products, HasName)), error |-> NoError],
              log |-> <<reply>>]
        ELSE [out |-> [kind |-> "result", value |-> <<>>, error |-> NoError],
              log |-> <<reply>>]

CountKeys == {"Critical", "High", "Medium", "Low", "Info", "Total"}
ZeroCounts == [k \in CountKeys |-> 0]

\* The loop over allFindings: a finding whose severity is a key of `counts`
\* adds one to that key and one to Total.
RECURSIVE CountLoop(_, _)
CountLoop(allFindings, counts) ==
    IF allFindings = <<>> THEN counts
    ELSE LET severity == Head(allFindings).severity
             bumped == [counts EXCEPT ![severity] = @ + 1]
         IN  IF severity \in CountKeys
             THEN CountLoop(Tail(allFindings), [bumped EXCEPT !["Total"] = @ + 1])
             ELSE CountLoop(Tail(allFindings), counts)

\* getVulnerabilityCountsByProduct(productName): the zero counts when the
\* product does not resolve or when anything throws.
getVulnerabilityCountsByProduct(productName, env, n) ==
    LET productInfo == getProductInfoByName(productName, env, n)
        reply == Upstream(env, "findings", productInfo.product.id, "", "", n + Len(productInfo.log))
    IN  IF ~productInfo.found
        THEN [out |-> [kind |-> "result", value |-> ZeroCounts, error |-> NoError],
              log |-> productInfo.log]
        ELSE IF ~reply.ok
        THEN [out |-> [kind |-> "result", value |-> ZeroCounts, error |-> NoError],
              log |-> Append(productInfo.log, reply)]
        ELSE [out |-> [kind |-> "result", value |-> CountLoop(FindingsFor(env, "", ""), ZeroCounts), error |-> NoError],
              log |-> Append(productInfo.log, reply)]

\* getTotalFindingCount(productName, severity): a product that does not
\* resolve leaves the query without a product filter; an error of the
\* count query becomes an error payload with its message.
getTotalFindingCount(productName, severity, env, n) ==
    LET productInfo == IF productName # <<>> THEN getProductInfoByName(productName, env, n)
                       ELSE [found |-> FALSE, product |-> NoProduct, log |-> <<>>]
        filter == IF productInfo.found THEN productInfo.product.id ELSE 0
        reply == Upstream(env, "findings", filter, severity, "", n + Len(productInfo.log))
    IN  IF ~reply.ok
        THEN [out |-> [kind |-> "error", value |-> <<>>, error |-> reply.error],
              log |-> Append(productInfo.log, reply)]
        ELSE [out |-> [kind |-> "result", value |-> [count |-> Len(FindingsFor(env, severity, ""))], error |-> NoError],
              log |-> Append(productInfo.log, reply)]

InvalidInput == [kind |-> "zod", status |-> 0, body |-> ""]
ProductNotFound == [kind |-> "product not found", status |-> 0, body |-> ""]

firstN(s, limit) == SubSeq(s, 1, IF Len(s) < limit THEN Len(s) ELSE limit)

\* The 'N/A' of a finding without a score.
NotAvailable == -1

\* The record getFindings and getProductKpiData make of a finding.
FindingView(f) ==
    [id |-> f.id, severity |-> f.severity,
     cwe |-> IF f.cwe # 0 THEN [known |-> TRUE, n |-> f.cwe] ELSE [known |-> FALSE, n |-> 0],
     cvssv3_score |-> IF f.cvssv3_score # 0 THEN f.cvssv3_score ELSE NotAvailable,
     tool |-> f.tool]

\* A getFindings that, like getTotalFindingCount, queries without a product
\* filter when the product does not resolve.
getFindingsUnfiltered(input, env, n) ==
    LET productInfo == IF input.productName # <<>> THEN getProductInfoByName(input.productName, env, n)
                       ELSE [found |-> TRUE, product |-> NoProduct, log |-> <<>>]
        n2 == n + Len(productInfo.log)
        reply == Upstream(env, "findings", productInfo.product.id, input.severity, input.toolName, n2)
        results == firstN(FindingsFor(env, input.severity, input.toolName), input.limit)
    IN  IF ~input.valid
        THEN [out |-> [kind |-> "throw", value |-> <<>>, error |-> InvalidInput], log |-> <<>>]
        ELSE IF ~reply.ok
        THEN [out |-> [kind |-> "error", value |-> <<>>, error |-> reply.error],
              log |-> Append(productInfo.log, reply)]
        ELSE [out |-> [kind |-> "result",
                       value |-> [totalCount |-> Len(FindingsFor(env, input.severity, input.toolName)),
                                  showing |-> Len(results),
                                  findings |-> [i \in 1..Len(results) |-> FindingView(results[i])]],
                       error |-> NoError],
              log |-> Append(productInfo.log, reply)]

\* getFindings(input), input being [valid, productName, severity, limit,
\* toolName]: the tool name goes into the query as it is given;
\* the input is parsed before the try block, so an input that does not
\* conform to GetFindingsInputSchema throws; within the try block a product
\* that does not resolve gives a message, an error gives an error payload
\* with its message, and no finding gives a message.
getFindings(input, env, n) ==
    LET productInfo == IF input.productName # <<>> THEN getProductInfoByName(input.productName, env, n)
                       ELSE [found |-> TRUE, product |-> NoProduct, log |-> <<>>]
        n2 == n + Len(productInfo.log)
        reply == Upstream(env, "findings", productInfo.product.id, input.severity, input.toolName, n2)
        results == firstN(FindingsFor(env, input.severity, input.toolName), input.limit)
        allProductsList == getProductList(env, n2 + 1)
    IN  IF ~input.valid
        THEN [out |-> [kind |-> "throw", value |-> <<>>, error |-> InvalidInput], log |-> <<>>]
        ELSE IF ~productInfo.found
        THEN [out |-> [kind |-> "message", value |-> [text |-> "not found", productName |-> input.productName], error |-> NoError],
              log |-> productInfo.log]
        ELSE IF ~reply.ok
        THEN [out |-> [kind |-> "error", value |-> <<>>, error |-> reply.error],
              log |-> Append(productInfo.log, reply)]
        ELSE IF results = <<>>
        THEN [out |-> [kind |-> "message", value |-> [text |-> "no findings", productName |-> input.productName], error |-> NoError],
              log |-> Append(productInfo.log, reply)]
        ELSE [out |-> [kind |-> "result",
                       value |-> [totalCount |-> Len(FindingsFor(env, input.severity, input.toolName)),
                                  showing |-> Len(results),
                                  findings |-> [i \in 1..Len(results) |-> FindingView(results[i])]],
                       error |-> NoError],
              log |-> Append(productInfo.log, reply) \o allProductsList.log]

\* What getProductKpiData makes of the text getFindings returned: the
\* findings of a result, nothing of a message or an error payload.
topCriticalFindings(criticalFindingsRaw) ==
    IF criticalFindingsRaw.out.kind = "result" THEN criticalFindingsRaw.out.value.findings ELSE <<>>

(***************************************************************************)
(* Calls of the operations, one at a time.                                 *)
(***************************************************************************)

\* s with every `from` replaced by `to`.
Replaced(s, from, to) == [i \in 1..Len(s) |-> IF s[i] = from THEN to ELSE s[i]]

\* The ways a caller may write a name.
Spellings(s) ==
    {s, toUpperCase(s), toLowerCase(s), <<" ">> \o s \o <<" ", " ">>,
     Replaced(s, " ", "-"), Replaced(s, "_", " "), Replaced(s, " ", "_"),
     stripSeparators(s)}

UnknownName == <<"N", "o", " ", "S", "u", "c", "h">>

\* The names given to the resolver: spellings of the keys, names and ids of
\* the table and of the live products, parts of names, and an unknown name.
ResolverInputs ==
    LET bases == {PRODUCT_MAP[i].key : i \in 1..Len(PRODUCT_MAP)}
                 \cup {PRODUCT_MAP[i].name : i \in 1..Len(PRODUCT_MAP)}
                 \cup {String(PRODUCT_MAP[i].id) : i \in 1..Len(PRODUCT_MAP)}
                 \cup {LiveProducts[i].name : i \in 1..Len(LiveProducts)}
                 \cup {String(LiveProducts[i].id) : i \in 1..Len(LiveProducts)}
                 \cup {SubSeq(PRODUCT_MAP[i].name, 1, 4) : i \in 1..Len(PRODUCT_MAP)}
                 \cup {UnknownName}
    IN  UNION {Spellings(s) : s \in bases} \ {<<>>}

\* The names given to the exported operations.
ProductNames ==
    { <<"M", "C", "L", "S">>, <<" ", "m", "c", "l", "s">>, <<"3">>,
      <<"z", "e", "t", "a", "-", "a", "p", "p">>, <<"2", "0">>, UnknownName }

Severities == {"", "Critical"}

\* The tool names given to getFindings: none, the name of a test type of
\* the upstream, and a name that is no tool.
ToolNames == {"", "Trivy Scan", "no such tool"}

OpsIdle ==
    /\ op = [name |-> "none"]
    /\ out = [kind |-> "idle", value |-> <<>>, error |-> NoError]
    /\ log = <<>>

\* The operations keep no state of their own between two calls, so a
\* behaviour makes one call, from the state after the module is loaded.
CallGetProductInfoByName ==
    /\ op.name = "none"
    /\ \E productName \in ResolverInputs, env \in ProductEnvs :
          LET r == getProductInfoByName(productName, env, 1)
          IN  /\ op' = [name |-> "getProductInfoByName", input |-> [productName |-> productName], env |-> env]
              /\ out' = [kind |-> "result", value |-> [found |-> r.found, product |-> r.product], error |-> NoError]
              /\ log' = r.log
    /\ UNCHANGED <<cacheVars, fetchVars>>

CallGetProductList ==
    /\ op.name = "none"
    /\ \E env \in ProductEnvs :
          LET r == getProductList(env, 1)
          IN  /\ op' = [name |-> "getProductList", input |-> [productName |-> <<>>], env |-> env]
              /\ out' = r.out
              /\ log' = r.log
    /\ UNCHANGED <<cacheVars, fetchVars>>

CallGetVulnerabilityCountsByProduct ==
    /\ op.name = "none"
    /\ \E productName \in ProductNames, env \in Envs :
          LET r == getVulnerabilityCountsByProduct(productName, env, 1)
          IN  /\ op' = [name |-> "getVulnerabilityCountsByProduct", input |-> [productName |-> productName], env |-> env]
              /\ out' = r.out
              /\ log' = r.log
    /\ UNCHANGED <<cacheVars, fetchVars>>

CallGetTotalFindingCount ==
    /\ op.name = "none"
    /\ \E productName \in ProductNames \cup {<<>>}, severity \in Severities, env \in Envs :
          LET r == getTotalFindingCount(productName, severity, env, 1)
          IN  /\ op' = [name |-> "getTotalFindingCount",
                        input |-> [productName |-> productName, severity |-> severity], env |-> env]
              /\ out' = r.out
              /\ log' = r.log
    /\ UNCHANGED <<cacheVars, fetchVars>>

CallGetFindings ==
    /\ op.name = "none"
    /\ \E valid \in BOOLEAN, productName \in ProductNames \cup {<<>>}, severity \in Severities,
          limit \in 1..MaxLimit, toolName \in ToolNames, env \in Envs :
          LET input == [valid |-> valid, productName |-> productName, severity |-> severity,
                        limit |-> limit, toolName |-> toolName]
              r == getFindings(input, env, 1)
          IN  /\ op' = [name |-> "getFindings", input |-> input, env |-> env]
              /\ out' = r.out
              /\ log' = r.log
    /\ UNCHANGED <<cacheVars, fetchVars>>

\* getProductKpiData(input) of get-kpi-data.ts: the counts, then the
\* resolver once more, throwing when the product does not resolve, then the
\* critical findings; nothing is caught.
CallGetProductKpiData ==
    /\ op.name = "none"
    /\ \E productName \in ProductNames, env \in Envs :
        \E severityCounts \in {getVulnerabilityCountsByProduct(productName, env, 1)} :
        \E productInfo \in {getProductInfoByName(productName, env, 1 + Len(severityCounts.log))} :
          /\ op' = [name |-> "getProductKpiData", input |-> [productName |-> productName], env |-> env]
          /\ IF ~productInfo.found
             THEN /\ out' = [kind |-> "throw", value |-> <<>>, error |-> ProductNotFound]
                  /\ log' = severityCounts.log \o productInfo.log
             ELSE \E criticalFindingsRaw \in
                        {getFindings([valid |-> TRUE, productName |-> productName,
                                      severity |-> "Critical", limit |-> 5, toolName |-> ""],
                                     env, 1 + Len(severityCounts.log) + Len(productInfo.log))} :
                    /\ out' = [kind |-> "result",
                               value |-> [severityCounts |-> severityCounts.out.value,
                                          topCriticalFindings |-> topCriticalFindings(criticalFindingsRaw)],
                               error |-> NoError]
                    /\ log' = severityCounts.log \o productInfo.log \o criticalFindingsRaw.log
    /\ UNCHANGED <<cacheVars, fetchVars>>

OpsNext ==
    \/ CallGetProductInfoByName
    \/ CallGetProductList
    \/ CallGetVulnerabilityCountsByProduct
    \/ CallGetTotalFindingCount
    \/ CallGetFindings
    \/ CallGetProductKpiData

(***************************************************************************)
(* The dashboard flow: getKpiData of get-kpi-data.ts.                      *)
(***************************************************************************)

\* The keys of severityCounts, in the order they are written.
SeverityKeys == <<"Critical", "High", "Medium", "Low", "Info">>

\* Property names every object inherits from Object.prototype: for these
\* `severityCounts[name] !== undefined` holds though name is no key.
ObjectPrototypeKeys ==
    {"constructor", "toString", "toLocaleString", "valueOf", "hasOwnProperty",
     "isPrototypeOf", "propertyIsEnumerable"}

\* The number NaN: what ++ makes of a function.
NaN == -1

\* PRODUCT_ID_MAP[id]: the name of the table entry of that id, the last one
\* if there are several; <<>> for undefined.
PRODUCT_ID_MAP(id) ==
    LET entries == {i \in 1..Len(PRODUCT_MAP) : PRODUCT_MAP[i].id = id}
    IN  IF entries = {} THEN <<>>
        ELSE PRODUCT_MAP[CHOOSE i \in entries : \A j \in entries : j <= i].name

\* severityCounts[severity]++ under its guard: an own key is incremented, an
\* inherited property name becomes an own key holding NaN, anything else is
\* left out. The counts are the entries of the object, in insertion order.
CountSeverity(severityCounts, severity) ==
    IF \E i \in 1..Len(severityCounts) : severityCounts[i].severity = severity
    THEN [i \in 1..Len(severityCounts) |->
            IF severityCounts[i].severity = severity /\ severityCounts[i].count # NaN
            THEN [severity |-> severity, count |-> severityCounts[i].count + 1]
            ELSE severityCounts[i]]
    ELSE IF severity \in ObjectPrototypeKeys
    THEN Append(severityCounts, [severity |-> severity, count |-> NaN])
    ELSE severityCounts

\* The product name getKpiData gives a finding: the name of the nested
\* product, else the name PRODUCT_ID_MAP has for the engagement's
\* product_id, else none (<<>>).
KpiProductName(finding) ==
    IF finding.product # <<>> THEN finding.product
    ELSE IF finding.product_id # 0 THEN PRODUCT_ID_MAP(finding.product_id)
    ELSE <<>>

\* productSummary[productName].Total++, the entry being made first if there
\* is none: the summary is the entries of the object, in insertion order.
CountProduct(productSummary, productName) ==
    IF \E i \in 1..Len(productSummary) : productSummary[i].product = productName
    THEN [i \in 1..Len(productSummary) |->
            IF productSummary[i].product = productName
            THEN [product |-> productName, vulnerabilities |-> productSummary[i].vulnerabilities + 1]
            ELSE productSummary[i]]
    ELSE Append(productSummary, [product |-> productName, vulnerabilities |-> 1])

\* The loop over allFindings.
RECURSIVE KpiLoop(_, _, _)
KpiLoop(allFindings, severityCounts, productSummary) ==
    IF allFindings = <<>>
    THEN [severityCounts |-> severityCounts, productSummary |-> productSummary]
    ELSE LET finding == Head(allFindings)
             productName == KpiProductName(finding)
         IN  KpiLoop(Tail(allFindings),
                     CountSeverity(severityCounts, finding.severity),
                     IF productName # <<>> THEN CountProduct(productSummary, productName)
                     ELSE productSummary)

\* productTotals.sort((a, b) => b.vulnerabilities - a.vulnerabilities): a
\* stable sort, so products of equal count stay in the order of the summary.
RECURSIVE sortByVulnerabilities(_)
sortByVulnerabilities(productTotals) ==
    IF productTotals = <<>> THEN <<>>
    ELSE LET first == Head(productTotals)
             rest == sortByVulnerabilities(Tail(productTotals))
             After(p) == p.vulnerabilities <= first.vulnerabilities
             k == FirstIndex({i \in 1..Len(rest) : After(rest[i])})
         IN  IF k = 0 THEN Append(rest, first)
             ELSE SubSeq(rest, 1, k - 1) \o <<first>> \o SubSeq(rest, k, Len(rest))

\* productTotals.slice(0, 5)
TopN == 5

ZeroSeverityCounts == [i \in 1..Len(SeverityKeys) |-> [severity |-> SeverityKeys[i], count |-> 0]]

\* What getKpiData returns when there are no findings or when anything throws.
DefaultKpiData ==
    [vulnerabilitiesBySeverity |-> ZeroSeverityCounts,
     openVsClosed |-> [open |-> 0, closed |-> 0],
     topVulnerableProducts |-> <<>>,
     productList |-> <<>>]

\* getKpiData(), given what its three fetches gave: `rejected` when
\* getCachedAllFindings threw.
getKpiData(rejected, allFindings, openClosedCounts, productList) ==
    LET totals == KpiLoop(allFindings, ZeroSeverityCounts, <<>>)
    IN  IF rejected \/ allFindings = <<>> THEN DefaultKpiData
        ELSE [vulnerabilitiesBySeverity |-> totals.severityCounts,
              openVsClosed |-> openClosedCounts,
              topVulnerableProducts |-> firstN(sortByVulnerabilities(totals.productSummary), TopN),
              productList |-> productList]

\* The findings of the cache as getKpiData reads them: [severity, product,
\* product_id], product the name of the nested product (<<>>: none) and
\* product_id the one of the engagement (0: none).
KpiFindings ==
    [severity : {"Critical", "Unrated", "constructor"},
     product : {<<>>},
     product_id : {0, 3, 5, 99}]
    \cup
    [severity : {"Critical", "Unrated", "constructor"},
     product : {<<"M", "C", "L", "S">>, <<"Z", "e", "t", "a", " ", "A", "p", "p">>},
     product_id : {0}]

CallGetKpiData ==
    /\ op.name = "none"
    /\ \E rejected \in BOOLEAN, allFindings \in SeqsUpTo(KpiFindings, MaxKpiFindings),
          openClosedCounts \in {[open |-> 2, closed |-> 1]},
          productList \in {sortByName(SelectSeq(LiveProducts, LAMBDA p : p.name # <<>>))} :
          /\ rejected => allFindings = <<>>
          /\ op' = [name |-> "getKpiData",
                    input |-> [productName |-> <<>>],
                    env |-> [rejected |-> rejected, allFindings |-> allFindings,
                             openClosedCounts |-> openClosedCounts, productList |-> productList]]
          /\ out' = [kind |-> "result",
                     value |-> getKpiData(rejected, allFindings, openClosedCounts, productList),
                     error |-> NoError]
          /\ log' = <<>>
    /\ UNCHANGED <<cacheVars, fetchVars>>

(***************************************************************************)
(* Components: extractComponentFromTitle and KNOWN_COMPONENTS.             *)
(***************************************************************************)

\* KNOWN_COMPONENTS, after its sort by length, longest first.
KNOWN_COMPONENTS ==
    <<
      <<"g", "o", "o", "g", "l", "e", "-", "c", "l", "o", "u", "d", "-", "s", "t", "o", "r", "a", "g", "e">>,
      <<"c", "o", "m", "m", "o", "n", "s", "-", "c", "o", "l", "l", "e", "c", "t", "i", "o", "n", "s">>,
      <<"c", "o", "m", "m", "o", "n", "s", "-", "f", "i", "l", "e", "u", "p", "l", "o", "a", "d">>,
      <<"j", "a", "c", "k", "s", "o", "n", "-", "d", "a", "t", "a", "b", "i", "n", "d">>,
      <<"s", "p", "r", "i", "n", "g", "-", "s", "e", "c", "u", "r", "i", "t", "y">>,
      <<"m", "y", "s", "q", "l", "-", "c", "o", "n", "n", "e", "c", "t", "o", "r">>,
      <<"b", "o", "u", "n", "c", "y", "c", "a", "s", "t", "l", "e">>,
      <<"c", "r", "y", "p", "t", "o", "g", "r", "a", "p", "h", "y">>,
      <<"s", "c", "i", "k", "i", "t", "-", "l", "e", "a", "r", "n">>,
      <<"s", "p", "r", "i", "n", "g", "-", "c", "o", "r", "e">>,
      <<"c", "o", "d", "e", "i", "g", "n", "i", "t", "e", "r">>,
      <<"s", "q", "l", "a", "l", "c", "h", "e", "m", "y">>,
      <<"h", "a", "n", "d", "l", "e", "b", "a", "r", "s">>,
      <<"t", "e", "n", "s", "o", "r", "f", "l", "o", "w">>,
      <<"a", "z", "u", "r", "e", "-", "c", "o", "r", "e">>,
      <<"k", "u", "b", "e", "r", "n", "e", "t", "e", "s">>,
      <<"l", "i", "b", "t", "o", "m", "m", "a", "t", "h">>,
      <<"h", "i", "b", "e", "r", "n", "a", "t", "e">>,
      <<"m", "o", "m", "e", "n", "t", ".", "j", "s">>,
      <<"b", "o", "o", "t", "s", "t", "r", "a", "p">>,
      <<"s", "o", "c", "k", "e", "t", ".", "i", "o">>,
      <<"c", "r", "y", "p", "t", "o", "-", "j", "s">>,
      <<"p", "h", "p", "m", "a", "i", "l", "e", "r">>,
      <<"t", "e", "r", "r", "a", "f", "o", "r", "m">>,
      <<"r", "e", "q", "u", "e", "s", "t", "s">>,
      <<"p", "s", "y", "c", "o", "p", "g", "2">>,
      <<"m", "o", "n", "g", "o", "o", "s", "e">>,
      <<"o", "p", "e", "n", "s", "s", "l">>,
      <<"m", "b", "e", "d", "T", "L", "S">>,
      <<"w", "o", "l", "f", "s", "s", "l">>,
      <<"l", "o", "g", "b", "a", "c", "k">>,
      <<"s", "t", "r", "u", "t", "s", "2">>,
      <<"a", "n", "g", "u", "l", "a", "r">>,
      <<"e", "x", "p", "r", "e", "s", "s">>,
      <<"l", "a", "r", "a", "v", "e", "l">>,
      <<"s", "y", "m", "f", "o", "n", "y">>,
      <<"l", "i", "b", "x", "m", "l", "2">>,
      <<"k", "n", "e", "x", ".", "j", "s">>,
      <<"t", "y", "p", "e", "o", "r", "m">>,
      <<"h", "a", "p", "r", "o", "x", "y">>,
      <<"p", "y", "t", "o", "r", "c", "h">>,
      <<"x", "g", "b", "o", "o", "s", "t">>,
      <<"a", "w", "s", "-", "s", "d", "k">>,
      <<"j", "e", "n", "k", "i", "n", "s">>,
      <<"a", "n", "s", "i", "b", "l", "e">>,
      <<"l", "i", "b", "s", "s", "l">>,
      <<"g", "n", "u", "t", "l", "s">>,
      <<"d", "j", "a", "n", "g", "o">>,
      <<"p", "a", "n", "d", "a", "s">>,
      <<"p", "y", "y", "a", "m", "l">>,
      <<"j", "i", "n", "j", "a", "2">>,
      <<"p", "y", "t", "h", "o", "n">>,
      <<"j", "q", "u", "e", "r", "y">>,
      <<"l", "o", "d", "a", "s", "h">>,
      <<"l", "i", "b", "p", "n", "g">>,
      <<"g", "o", "l", "a", "n", "g">>,
      <<"s", "q", "l", "i", "t", "e">>,
      <<"a", "p", "a", "c", "h", "e">>,
      <<"t", "o", "m", "c", "a", "t">>,
      <<"d", "o", "c", "k", "e", "r">>,
      <<"l", "o", "g", "4", "j">>,
      <<"j", "u", "n", "i", "t">>,
      <<"f", "l", "a", "s", "k">>,
      <<"n", "u", "m", "p", "y">>,
      <<"r", "e", "a", "c", "t">>,
      <<"a", "x", "i", "o", "s">>,
      <<"g", "l", "i", "b", "c">>,
      <<"n", "g", "i", "n", "x">>,
      <<"h", "t", "t", "p", "d">>,
      <<"i", "s", "t", "i", "o">>,
      <<"k", "e", "r", "a", "s">>,
      <<"b", "o", "t", "o", "3">>,
      <<"t", "w", "i", "g">>,
      <<"z", "l", "i", "b">>,
      <<"c", "u", "r", "l">>,
      <<"h", "e", "l", "m">>,
      <<"v", "u", "e">>,
      <<"g", "o">>
    >>

\* \w of the regular expressions.
IsWordChar(c) == c \in Range(UpperChars) \cup Range(LowerChars) \cup Range(DigitChars) \cup {"_"}

\* \b at the gap before position i of s (i in 1..Len(s)+1).
WordBoundary(s, i) ==
    LET before == i > 1 /\ IsWordChar(s[i - 1])
        after == i <= Len(s) /\ IsWordChar(s[i])
    IN  before # after

\* new RegExp(`\\b${component}\\b`, 'i').test(lowerTitle), the characters of
\* the component being escaped.
TitleNames(lowerTitle, component) ==
    \E i \in 1..(Len(lowerTitle) - Len(component) + 1) :
        /\ toLowerCase(SubSeq(lowerTitle, i, i + Len(component) - 1)) = toLowerCase(component)
        /\ WordBoundary(lowerTitle, i)
        /\ WordBoundary(lowerTitle, i + Len(component))

Unknown == <<"u", "n", "k", "n", "o", "w", "n">>
Golang == <<"g", "o", "l", "a", "n", "g">>
Go == <<"g", "o">>

\* extractComponentFromTitle(title): the first known component the title
\* names, 'go' standing for 'golang'; 'unknown' if it names none.
extractComponentFromTitle(title) ==
    LET lowerTitle == toLowerCase(title)
        k == FirstIndex({i \in 1..Len(KNOWN_COMPONENTS) : TitleNames(lowerTitle, KNOWN_COMPONENTS[i])})
    IN  IF k = 0 THEN Unknown
        ELSE IF KNOWN_COMPONENTS[k] = Golang THEN Go
        ELSE KNOWN_COMPONENTS[k]

\* The titles of the findings of the upstream.
Titles ==
    { <<"L", "o", "g", "4", "j", " ", "R", "C", "E", " ", "i", "n", " ", "l", "o", "g", "g", "i", "n", "g">>,
      <<"W", "e", "a", "k", " ", "c", "i", "p", "h", "e", "r", " ", "c", "o", "n", "f", "i", "g", "u", "r", "e", "d">>,
      <<"g", "o", "l", "a", "n", "g", ".", "o", "r", "g", "/", "x", "/", "n", "e", "t", " ", "f", "l", "a", "w">> }

\* extractComponentFromTitle, tabulated over Titles.
ComponentOfTitle == [title \in Titles |-> extractComponentFromTitle(title)]

\* f.component_name || extractComponentFromTitle(f.title) || 'unknown'
ComponentOf(f) ==
    IF f.component_name # <<>> THEN f.component_name ELSE ComponentOfTitle[f.title]

(***************************************************************************)
(* analyzeVulnerabilityData.                                               *)
(***************************************************************************)

UnknownProduct == <<"U", "n", "k", "n", "o", "w", "n", " ", "P", "r", "o", "d", "u", "c", "t">>
Openssl == <<"o", "p", "e", "n", "s", "s", "l">>
WeakCipher == <<"W", "e", "a", "k", " ", "c", "i", "p", "h", "e", "r", " ", "c", "o", "n", "f", "i", "g", "u", "r", "e", "d">>

\* Findings the upstream may answer an analysis with: [id, title,
\* component_name, severity, product, product_id, tool, date]. `product` is
\* the product nested in the engagement (NoProduct: none), product_id the
\* engagement's (0: none), tool the name of the nested test type ("": the
\* test type is not nested), date a day number.
AnalysisFindings ==
    { [id |-> 1, title |-> WeakCipher, component_name |-> Openssl, severity |-> "Critical",
       product |-> NoProduct, product_id |-> 3, tool |-> "Trivy Scan", date |-> 3],
      [id |-> 2, title |-> WeakCipher, component_name |-> Openssl, severity |-> "Low",
       product |-> NoProduct, product_id |-> 20, tool |-> "Trivy Scan", date |-> 1],
      [id |-> 3, title |-> <<"L", "o", "g", "4", "j", " ", "R", "C", "E", " ", "i", "n", " ", "l", "o", "g", "g", "i", "n", "g">>, component_name |-> <<>>, severity |-> "High",
       product |-> NoProduct, product_id |-> 3, tool |-> "", date |-> 2],
      [id |-> 4, title |-> WeakCipher, component_name |-> <<>>, severity |-> "Critical",
       product |-> NoProduct, product_id |-> 20, tool |-> "Trivy Scan", date |-> 4],
      [id |-> 5, title |-> WeakCipher, component_name |-> Openssl, severity |-> "Critical",
       product |-> [id |-> 3, name |-> <<"M", "C", "L", "S">>], product_id |-> 0,
       tool |-> "ZAP Scan", date |-> 5] }

\* productName.split(',')
RECURSIVE split(_)
split(s) ==
    LET commas == {i \in 1..Len(s) : s[i] = ","}
        k == FirstIndex(commas)
    IN  IF k = 0 THEN <<s>>
        ELSE <<SubSeq(s, 1, k - 1)>> \o split(SubSeq(s, k + 1, Len(s)))

\* Promise.all(productNames.map(name => getProductInfoByName(name))), then
\* the filter that drops the nulls: the products found and the upstream
\* calls made, the first of them being the n-th of the operation.
RECURSIVE ResolveAll(_, _, _)
ResolveAll(productNames, env, n) ==
    IF productNames = <<>> THEN [products |-> <<>>, log |-> <<>>]
    ELSE LET info == getProductInfoByName(trim(Head(productNames)), env, n)
             rest == ResolveAll(Tail(productNames), env, n + Len(info.log))
         IN  [products |-> (IF info.found THEN <<info.product>> ELSE <<>>) \o rest.products,
              log |-> info.log \o rest.log]

\* The elements of s, each once, in the order of their first occurrence:
\* the order of the keys of an object filled in a loop over s.
RECURSIVE Distinct(_)
Distinct(s) ==
    IF s = <<>> THEN <<>>
    ELSE LET front == Distinct(SubSeq(s, 1, Len(s) - 1))
             last == s[Len(s)]
         IN  IF \E i \in 1..Len(front) : front[i] = last THEN front ELSE Append(front, last)

\* Array.prototype.sort with a comparator that puts the larger key first,
\* keys being compared place by place: a stable sort of [key, item] pairs.
RECURSIVE sortDescending(_)
sortDescending(pairs) ==
    IF pairs = <<>> THEN <<>>
    ELSE LET first == Head(pairs)
             rest == sortDescending(Tail(pairs))
             k == FirstIndex({i \in 1..Len(rest) : ~LexLess(first.key, rest[i].key)})
         IN  IF k = 0 THEN Append(rest, first)
             ELSE SubSeq(rest, 1, k - 1) \o <<first>> \o SubSeq(rest, k, Len(rest))

Items(pairs) == [i \in 1..Len(pairs) |-> pairs[i].item]

\* The number of the findings of s of that severity.
SeverityCount(s, severity) == Cardinality({i \in 1..Len(s) : s[i].severity = severity})

\* The `severities` object of a group of findings.
SeveritiesOf(s) == [severity \in {s[i].severity : i \in 1..Len(s)} |-> SeverityCount(s, severity)]

\* findingsWithDetails: each finding with its component, its tool and the
\* name the product list has for the engagement's product_id.
WithDetails(f, allProductsList) ==
    LET matched == FirstIndex({i \in 1..Len(allProductsList) : allProductsList[i].id = f.product_id})
    IN  [id |-> f.id, title |-> f.title, severity |-> f.severity, date |-> f.date,
         component |-> ComponentOf(f),
         tool |-> IF f.tool # "" THEN f.tool ELSE "Unknown",
         product_name |-> IF f.product_id # 0 /\ matched # 0 THEN allProductsList[matched].name
                          ELSE UnknownProduct]

\* productsToAnalyze.map(p => p.name).join(', ')
RECURSIVE joinNames(_)
joinNames(products) ==
    IF products = <<>> THEN <<>>
    ELSE IF Len(products) = 1 THEN products[1].name
    ELSE products[1].name \o <<",", " ">> \o joinNames(Tail(products))

AllProducts == <<"A", "l", "l", " ", "P", "r", "o", "d", "u", "c", "t", "s">>

\* requestedProductName
RequestedProductName(productsToAnalyze) ==
    IF productsToAnalyze = <<>> THEN AllProducts ELSE joinNames(productsToAnalyze)

\* The product a finding belongs to upstream: the one nested in its
\* engagement, or the one its engagement names by id.
UpstreamProductId(f) == IF f.product # NoProduct THEN f.product.id ELSE f.product_id

\* What the upstream answers to findings/?test__engagement__product(__in)=ids,
\* in its own order; every finding when the query names no product.
AnalysisFindingsFor(env, productIds) ==
    LET Wanted(f) == productIds = <<>> \/ \E i \in 1..Len(productIds) : productIds[i] = UpstreamProductId(f)
    IN  SelectSeq(env.findings, Wanted)

\* analysisType === 'component_risk'
componentRisk(findingsWithDetails, limit) ==
    LET Known(f) == f.component # Unknown
        counted == SelectSeq(findingsWithDetails, Known)
        names == Distinct([i \in 1..Len(counted) |-> counted[i].component])
        Entry(name) ==
            LET Mine(f) == f.component = name
                mine == SelectSeq(counted, Mine)
            IN  [name |-> name, count |-> Len(mine), severities |-> SeveritiesOf(mine),
                 critical |-> SeverityCount(mine, "Critical"), high |-> SeverityCount(mine, "High")]
        Pair(entry) == [key |-> <<entry.critical, entry.high, entry.count>>, item |-> entry]
    IN  firstN(Items(sortDescending([i \in 1..Len(names) |-> Pair(Entry(names[i]))])), limit)

\* analysisType === 'vulnerability_age': the oldest first.
vulnerabilityAge(findingsWithDetails, limit) ==
    LET Pair(f) == [key |-> <<0 - f.date>>,
                    item |-> [title |-> f.title, component |-> f.component, product |-> f.product_name,
                              date |-> f.date, severity |-> f.severity, id |-> f.id]]
    IN  firstN(Items(sortDescending([i \in 1..Len(findingsWithDetails) |-> Pair(findingsWithDetails[i])])), limit)

NA == <<"N", "/", "A">>

\* analysisType === 'tool_comparison'
toolComparison(findingsWithDetails, limit) ==
    LET Known(f) == f.tool # "Unknown"
        counted == SelectSeq(findingsWithDetails, Known)
        names == Distinct([i \in 1..Len(counted) |-> counted[i].tool])
        Entry(name) ==
            LET Mine(f) == f.tool = name
                mine == SelectSeq(counted, Mine)
                components == Distinct([i \in 1..Len(mine) |-> mine[i].component])
                Hits(component) == Cardinality({i \in 1..Len(mine) : mine[i].component = component})
                ranked == sortDescending([i \in 1..Len(components) |->
                                             [key |-> <<Hits(components[i])>>, item |-> components[i]]])
            IN  [name |-> name, count |-> Len(mine),
                 mostAffectedComponent |-> IF ranked # <<>> THEN ranked[1].item ELSE NA,
                 severities |-> SeveritiesOf(mine)]
        Pair(entry) == [key |-> <<entry.count>>, item |-> entry]
    IN  firstN(Items(sortDescending([i \in 1..Len(names) |-> Pair(Entry(names[i]))])), limit)

\* componentUsage, mapped: one entry per known component of the findings
\* whose product is known, in the order of first occurrence.
componentUsage(findingsWithDetails) ==
    LET Known(f) == f.component # Unknown /\ f.product_name # <<>> /\ f.product_name # UnknownProduct
        counted == SelectSeq(findingsWithDetails, Known)
        names == Distinct([i \in 1..Len(counted) |-> counted[i].component])
        Entry(name) ==
            LET Mine(f) == f.component = name
                mine == SelectSeq(counted, Mine)
                products == Distinct([i \in 1..Len(mine) |-> mine[i].product_name])
            IN  [name |-> name, productCount |-> Len(products), vuln_count |-> Len(mine),
                 critical |-> SeverityCount(mine, "Critical"), high |-> SeverityCount(mine, "High"),
                 products |-> products]
    IN  [i \in 1..Len(names) |-> Entry(names[i])]

\* The filter of sharedComponents with every required name replaced by
\* some required name.
sharedInSome(c, requiredProductNames) ==
    IF requiredProductNames # {}
    THEN \E pName \in requiredProductNames : \E i \in 1..Len(c.products) : c.products[i] = pName
    ELSE c.productCount > 1

\* The filter of sharedComponents: requiredProductNames.size > 0 ?
\* every required name is among c.products : c.productCount > 1
shared(c, requiredProductNames) ==
    IF requiredProductNames # {}
    THEN \A pName \in requiredProductNames : \E i \in 1..Len(c.products) : c.products[i] = pName
    ELSE c.productCount > 1

\* analysisType === 'cross_product_component_usage'
crossProductComponentUsage(findingsWithDetails, productsToAnalyze, limit) ==
    LET requiredProductNames == {productsToAnalyze[i].name : i \in 1..Len(productsToAnalyze)}
        Selected(c) == shared(c, requiredProductNames)
        selected == SelectSeq(componentUsage(findingsWithDetails), Selected)
        Pair(c) == [key |-> <<c.productCount, c.critical, c.high, c.vuln_count>>, item |-> c]
    IN  firstN(Items(sortDescending([i \in 1..Len(selected) |-> Pair(selected[i])])), limit)

\* analysisType === 'product_risk'
productRisk(findingsWithDetails, limit) ==
    LET Known(f) == f.product_name # UnknownProduct
        counted == SelectSeq(findingsWithDetails, Known)
        names == Distinct([i \in 1..Len(counted) |-> counted[i].product_name])
        Entry(name) ==
            LET Mine(f) == f.product_name = name
                mine == SelectSeq(counted, Mine)
            IN  [name |-> name, count |-> Len(mine), severities |-> SeveritiesOf(mine),
                 critical |-> SeverityCount(mine, "Critical"), high |-> SeverityCount(mine, "High")]
        Pair(entry) == [key |-> <<entry.critical, entry.high, entry.count>>, item |-> entry]
    IN  firstN(Items(sortDescending([i \in 1..Len(names) |-> Pair(Entry(names[i]))])), limit)

AnalysisTypes ==
    {"component_risk", "vulnerability_age", "tool_comparison", "cross_product_component_usage",
     "product_risk"}

NoneFound == [kind |-> "analysis", status |-> 0, body |-> "None of the specified products were found"]
NotImplemented == [kind |-> "analysis", status |-> 0, body |-> "Analysis type is not yet implemented"]
ServerError == [kind |-> "http", status |-> 500, body |-> "Server Error"]

\* The return statement of the branch of analysisType.
analysisResult(analysisType, findingsWithDetails, productsToAnalyze, limit) ==
    LET requested == RequestedProductName(productsToAnalyze)
        Payload(value) == [kind |-> "result", value |-> value, error |-> NoError]
    IN  CASE analysisType = "component_risk" ->
               Payload([analysis |-> "Component Risk", product |-> requested,
                        results |-> componentRisk(findingsWithDetails, limit)])
          [] analysisType = "vulnerability_age" ->
               Payload([analysis |-> "Vulnerability Age", product |-> requested,
                        results |-> vulnerabilityAge(findingsWithDetails, limit)])
          [] analysisType = "tool_comparison" ->
               Payload([analysis |-> "Tool Comparison", product |-> requested,
                        results |-> toolComparison(findingsWithDetails, limit)])
          [] analysisType = "cross_product_component_usage" ->
               Payload([analysis |-> "Cross-Product Component Usage",
                        results |-> crossProductComponentUsage(findingsWithDetails, productsToAnalyze, limit)])
          [] analysisType = "product_risk" ->
               Payload([analysis |-> "Product Risk", results |-> productRisk(findingsWithDetails, limit)])
          [] OTHER -> [kind |-> "error", value |-> <<>>, error |-> NotImplemented]

\* The upstream faults an analysis may meet, and what the upstream holds.
AnalysisEnvs ==
    LET faults == {[configured |-> TRUE, failAt |-> {}, error |-> NoError]}
                  \cup {[configured |-> TRUE, failAt |-> {k}, error |-> ServerError] : k \in 1..3}
    IN  {[configured |-> f.configured, failAt |-> f.failAt, error |-> f.error,
          products |-> LiveProducts, findings |-> findings] :
             f \in faults, findings \in SeqsUpTo(AnalysisFindings, MaxAnalysisFindings)}

\* The product names an analysis is asked about: none, one, two, one that
\* resolves to nothing, and one that resolves beside one that does not.
AnalysisProductNames ==
    { <<>>,
      <<"M", "C", "L", "S">>,
      <<"M", "C", "L", "S", ",", " ", "z", "e", "t", "a", "-", "a", "p", "p">>,
      UnknownName,
      <<"M", "C", "L", "S", ",">> \o UnknownName }

\* analyzeVulnerabilityData(analysisType, productName, undefined, limit):
\* the resolver for each name, the findings of the products found, the
\* product list, the details of each finding, then the analysis; an error
\* thrown by the findings request is caught and returned as a payload.
CallAnalyzeVulnerabilityData ==
    /\ op.name = "none"
    /\ \E analysisType \in AnalysisTypes \cup {"component_trend"}, productName \in AnalysisProductNames,
          limit \in 1..MaxLimit, env \in AnalysisEnvs :
        \E resolved \in {IF productName = <<>> THEN [products |-> <<>>, log |-> <<>>]
                         ELSE ResolveAll(split(productName), env, 1)} :
        \E productIds \in {[i \in 1..Len(resolved.products) |-> resolved.products[i].id]} :
        \E reply \in {Upstream(env, "findings", productIds, "", "", 1 + Len(resolved.log))} :
        \E allFindings \in {AnalysisFindingsFor(env, productIds)} :
          /\ op' = [name |-> "analyzeVulnerabilityData",
                    input |-> [analysisType |-> analysisType, productName |-> productName, limit |-> limit],
                    env |-> env]
          /\ IF productName # <<>> /\ resolved.products = <<>>
             THEN /\ out' = [kind |-> "error", value |-> <<>>, error |-> NoneFound]
                  /\ log' = resolved.log
             ELSE IF ~reply.ok
             THEN /\ out' = [kind |-> "error", value |-> <<>>, error |-> reply.error]
                  /\ log' = Append(resolved.log, reply)
             ELSE IF allFindings = <<>>
             THEN /\ out' = [kind |-> "message", value |-> <<>>, error |-> NoError]
                  /\ log' = Append(resolved.log, reply)
             ELSE \E allProductsList \in {getProductList(env, 2 + Len(resolved.log))} :
                  \E findingsWithDetails \in
                        {[i \in 1..Len(allFindings) |-> WithDetails(allFindings[i], allProductsList.out.value)]} :
                    /\ out' = analysisResult(analysisType, findingsWithDetails, resolved.products, limit)
                    /\ log' = Append(resolved.log, reply) \o allProductsList.log
    /\ UNCHANGED <<cacheVars, fetchVars>>

(***************************************************************************)
(* Component risk: cvssToNumber, getComponentImpact, getTopRiskyComponents.*)
(* Scores are in tenths, percentages in tenths of a percent.               *)
(***************************************************************************)

\* The digits s starts with.
RECURSIVE leadingDigits(_)
leadingDigits(s) ==
    IF s # <<>> /\ Head(s) \in Range(DigitChars) THEN <<Head(s)>> \o leadingDigits(Tail(s)) ELSE <<>>

\* The number a sequence of digits writes.
RECURSIVE digitsValue(_)
digitsValue(digits) ==
    IF digits = <<>> THEN 0
    ELSE 10 * digitsValue(SubSeq(digits, 1, Len(digits) - 1)) + (IndexIn(DigitChars, digits[Len(digits)]) - 1)

\* parseFloat(text), in tenths: white space, a sign, digits, a point and
\* digits, of which the first counts; NaN when there is no digit.
parseFloat(text) ==
    LET unsigned == trimStart(text)
        negative == unsigned # <<>> /\ Head(unsigned) = "-"
        numeral == IF negative THEN Tail(unsigned) ELSE unsigned
        whole == leadingDigits(numeral)
        rest == SubSeq(numeral, Len(whole) + 1, Len(numeral))
        fraction == IF rest # <<>> /\ Head(rest) = "." THEN leadingDigits(Tail(rest)) ELSE <<>>
        tenths == 10 * digitsValue(whole) + (IF fraction = <<>> THEN 0 ELSE digitsValue(<<fraction[1]>>))
    IN  IF whole = <<>> /\ fraction = <<>> THEN [nan |-> TRUE, number |-> 0]
        ELSE [nan |-> FALSE, number |-> IF negative THEN 0 - tenths ELSE tenths]

\* The cvssv3_score of a finding: a number, a string, or null.
Scores ==
    { [type |-> "number", number |-> 98, text |-> <<>>],
      [type |-> "number", number |-> 100, text |-> <<>>],
      [type |-> "string", number |-> 0, text |-> <<"7", ".", "5">>],
      [type |-> "string", number |-> 0, text |-> <<"N", "/", "A">>],
      [type |-> "null", number |-> 0, text |-> <<>>] }

\* cvssToNumber(score)
cvssToNumber(score) ==
    IF score.type = "number" THEN score.number
    ELSE IF score.type = "string"
    THEN LET num == parseFloat(score.text) IN IF num.nan THEN 0 ELSE num.number
    ELSE 0

\* cvssToNumber, tabulated over Scores.
NumberOfScore == [score \in Scores |-> cvssToNumber(score)]

\* new RegExp(componentName, 'i').test(text): the name is found somewhere
\* in the text, whatever the case, a point of the name standing for any
\* character.
RegExpTest(componentName, text) ==
    \E i \in 1..(Len(text) - Len(componentName) + 1) :
        \A k \in 1..Len(componentName) :
            componentName[k] = "." \/ LowerOf[componentName[k]] = LowerOf[text[i + k - 1]]

\* The texts of the findings: titles and descriptions.
Texts == Titles \cup {<<>>, <<"o", "p", "e", "n", "s", "s", "l", " ", "1", ".", "0", " ", "i", "n", " ", "u", "s", "e">>}

\* The known components a text names.
ComponentsIn == [text \in Texts |-> {i \in 1..Len(KNOWN_COMPONENTS) : RegExpTest(KNOWN_COMPONENTS[i], text)}]

\* Findings of the cache: [title, description, severity, cvssv3_score].
RiskFindings ==
    { [title |-> <<"L", "o", "g", "4", "j", " ", "R", "C", "E", " ", "i", "n", " ", "l", "o", "g", "g", "i", "n", "g">>, description |-> <<>>, severity |-> "Critical",
       cvssv3_score |-> [type |-> "number", number |-> 98, text |-> <<>>]],
      [title |-> WeakCipher, description |-> <<"o", "p", "e", "n", "s", "s", "l", " ", "1", ".", "0", " ", "i", "n", " ", "u", "s", "e">>, severity |-> "High",
       cvssv3_score |-> [type |-> "string", number |-> 0, text |-> <<"7", ".", "5">>]],
      [title |-> <<"g", "o", "l", "a", "n", "g", ".", "o", "r", "g", "/", "x", "/", "n", "e", "t", " ", "f", "l", "a", "w">>, description |-> <<>>, severity |-> "Low",
       cvssv3_score |-> [type |-> "null", number |-> 0, text |-> <<>>]],
      [title |-> <<"L", "o", "g", "4", "j", " ", "R", "C", "E", " ", "i", "n", " ", "l", "o", "g", "g", "i", "n", "g">>, description |-> <<>>, severity |-> "High",
       cvssv3_score |-> [type |-> "string", number |-> 0, text |-> <<"N", "/", "A">>]],
      [title |-> WeakCipher, description |-> <<>>, severity |-> "Critical",
       cvssv3_score |-> [type |-> "number", number |-> 100, text |-> <<>>]] }

\* The sum of the scores of Critical findings only.
RECURSIVE totalRiskOfCritical(_)
totalRiskOfCritical(allFindingsData) ==
    IF allFindingsData = <<>> THEN 0
    ELSE (IF Head(allFindingsData).severity = "Critical" THEN NumberOfScore[Head(allFindingsData).cvssv3_score] ELSE 0)
         + totalRiskOfCritical(Tail(allFindingsData))

\* totalRisk after allFindingsData.forEach(finding => totalRisk +=
\* cvssToNumber(finding.cvssv3_score))
RECURSIVE totalRisk(_)
totalRisk(allFindingsData) ==
    IF allFindingsData = <<>> THEN 0
    ELSE NumberOfScore[Head(allFindingsData).cvssv3_score] + totalRisk(Tail(allFindingsData))

\* componentRisk: the same loop over the findings of the component.
RECURSIVE componentRiskOf(_)
componentRiskOf(componentFindings) ==
    IF componentFindings = <<>> THEN 0
    ELSE NumberOfScore[Head(componentFindings).cvssv3_score] + componentRiskOf(Tail(componentFindings))

\* Table lookups of the component names given to getComponentImpact.
ComponentIndex(componentName) ==
    FirstIndex({i \in 1..Len(KNOWN_COMPONENTS) : KNOWN_COMPONENTS[i] = componentName})

\* allFindingsData.filter(finding => componentPattern.test(finding.title) ||
\* (finding.description && componentPattern.test(finding.description))), for
\* the i-th known component.
componentFindingsOf(allFindingsData, i) ==
    LET Named(finding) == \/ i \in ComponentsIn[finding.title]
                          \/ finding.description # <<>> /\ i \in ComponentsIn[finding.description]
    IN  SelectSeq(allFindingsData, Named)

\* parseFloat(((componentRisk / totalRisk) * 100).toFixed(1)), in tenths
\* of a percent, rounded to the nearest.
riskReductionPercent(risk, total) == (2000 * risk + total) \div (2 * total)

NoFindings == [kind |-> "analysis", status |-> 0, body |-> "No active findings found to analyze."]
CacheRejected == [kind |-> "analysis", status |-> 0, body |-> "Failed to analyze"]

\* One entry of componentAnalyses.
componentAnalysis(componentName, componentFindings, percent) ==
    [componentName |-> componentName,
     vulnerabilityCount |-> Len(componentFindings),
     criticalCount |-> SeverityCount(componentFindings, "Critical"),
     highCount |-> SeverityCount(componentFindings, "High"),
     riskReductionPercent |-> percent]

\* getTopRiskyComponents(limit), the cache holding allFindingsData; the
\* value carries the local totalRisk beside what is returned.
getTopRiskyComponents(rejected, allFindingsData, limit) ==
    LET total == totalRisk(allFindingsData)
        found == SelectSeq([i \in 1..Len(KNOWN_COMPONENTS) |-> i],
                           LAMBDA i : componentFindingsOf(allFindingsData, i) # <<>>)
        Pair(i) == LET componentFindings == componentFindingsOf(allFindingsData, i)
                       percent == riskReductionPercent(componentRiskOf(componentFindings), total)
                   IN  [key |-> <<percent>>, item |-> componentAnalysis(KNOWN_COMPONENTS[i], componentFindings, percent)]
    IN  IF rejected THEN [kind |-> "error", value |-> <<>>, error |-> CacheRejected]
        ELSE IF allFindingsData = <<>> THEN [kind |-> "error", value |-> <<>>, error |-> NoFindings]
        ELSE IF total = 0
        THEN [kind |-> "result", value |-> [topComponents |-> <<>>, totalRisk |-> total], error |-> NoError]
        ELSE [kind |-> "result",
              value |-> [topComponents |-> firstN(Items(sortDescending([k \in 1..Len(found) |-> Pair(found[k])])), limit),
                         totalRisk |-> total],
              error |-> NoError]

\* getComponentImpact(componentName), for the i-th known component; the
\* value carries the local totalRisk beside the counts returned.
getComponentImpact(rejected, allFindingsData, i) ==
    LET total == totalRisk(allFindingsData)
        componentFindings == componentFindingsOf(allFindingsData, i)
        percent == IF componentFindings # <<>> /\ total > 0
                   THEN riskReductionPercent(componentRiskOf(componentFindings), total)
                   ELSE 0
    IN  IF rejected THEN [kind |-> "error", value |-> <<>>, error |-> CacheRejected]
        ELSE IF allFindingsData = <<>> THEN [kind |-> "error", value |-> <<>>, error |-> NoFindings]
        ELSE [kind |-> "result",
              value |-> [impact |-> componentAnalysis(KNOWN_COMPONENTS[i], componentFindings, percent),
                         totalRisk |-> total],
              error |-> NoError]

\* The component names getComponentImpact is asked about.
ImpactComponents == {<<"l", "o", "g", "4", "j">>, <<"o", "p", "e", "n", "s", "s", "l">>, <<"n", "g", "i", "n", "x">>}

CallGetTopRiskyComponents ==
    /\ op.name = "none"
    /\ \E rejected \in BOOLEAN, allFindingsData \in SeqsUpTo(RiskFindings, MaxRiskFindings), limit \in 1..MaxLimit :
          /\ rejected => allFindingsData = <<>>
          /\ op' = [name |-> "getTopRiskyComponents", input |-> [limit |-> limit],
                    env |-> [rejected |-> rejected, allFindings |-> allFindingsData]]
          /\ out' = getTopRiskyComponents(rejected, allFindingsData, limit)
          /\ log' = <<>>
    /\ UNCHANGED <<cacheVars, fetchVars>>

CallGetComponentImpact ==
    /\ op.name = "none"
    /\ \E rejected \in BOOLEAN, allFindingsData \in SeqsUpTo(RiskFindings, MaxRiskFindings),
          componentName \in ImpactComponents :
          /\ rejected => allFindingsData = <<>>
          /\ op' = [name |-> "getComponentImpact", input |-> [componentName |-> componentName],
                    env |-> [rejected |-> rejected, allFindings |-> allFindingsData]]
          /\ out' = getComponentImpact(rejected, allFindingsData, ComponentIndex(componentName))
          /\ log' = <<>>
    /\ UNCHANGED <<cacheVars, fetchVars>>

RiskNext == CallGetTopRiskyComponents \/ CallGetComponentImpact

(***************************************************************************)
(* The cache-backed service: getCachedAllFindings with all-or-nothing      *)
(* validation, and the getFindings that filters the cache in memory.       *)
(***************************************************************************)

Trivy == <<"T", "r", "i", "v", "y", " ", "S", "c", "a", "n">>

\* Findings the upstream serves to a refresh: [id, title, description,
\* severity, cvssv3_score, product, tool, active], product and tool being
\* the names nested in the test.
CachedFindings ==
    { [id |-> 1, title |-> WeakCipher, description |-> <<>>, severity |-> "High",
       cvssv3_score |-> [type |-> "string", number |-> 0, text |-> <<"7", ".", "5">>],
       product |-> <<"M", "C", "L", "S">>, tool |-> Trivy, active |-> TRUE],
      [id |-> 2, title |-> <<"L", "o", "g", "4", "j", " ", "R", "C", "E", " ", "i", "n", " ", "l", "o", "g", "g", "i", "n", "g">>, description |-> <<>>, severity |-> "Critical",
       cvssv3_score |-> [type |-> "number", number |-> 98, text |-> <<>>],
       product |-> <<"M", "C", "L", "S">>, tool |-> Trivy, active |-> TRUE],
      [id |-> 3, title |-> WeakCipher, description |-> <<>>, severity |-> "Critical",
       cvssv3_score |-> [type |-> "number", number |-> 100, text |-> <<>>],
       product |-> <<"Z", "e", "t", "a", " ", "A", "p", "p">>, tool |-> <<>>, active |-> TRUE] }

\* What the paginated fetch of a refresh comes to: a list every record of
\* which parses, a list with a record that does not, or an error thrown;
\* "none" when no refresh is made.
RefreshAnswers ==
    {[kind |-> "list", findings |-> findings] : findings \in SeqsUpTo(CachedFindings, MaxCachedFindings)}
    \cup {[kind |-> "unparsable", findings |-> <<>>], [kind |-> "throws", findings |-> <<>>]}

NoAnswer == [kind |-> "none", findings |-> <<>>]

\* getCachedAllFindings(): the cache after the call, the array returned and
\* whether it is the array the cache holds; `thrown` when the fetch threw.
getCachedAllFindings(cache, now, answer) ==
    IF IsFresh(cache, now)
    THEN [cache |-> cache, thrown |-> FALSE, findings |-> cache.findings, ofCache |-> TRUE]
    ELSE IF answer.kind = "throws"
    THEN [cache |-> cache, thrown |-> TRUE, findings |-> <<>>, ofCache |-> FALSE]
    ELSE IF answer.kind = "unparsable"
    THEN [cache |-> cache, thrown |-> FALSE, findings |-> <<>>, ofCache |-> FALSE]
    ELSE [cache |-> [findings |-> answer.findings, lastFetched |-> now],
          thrown |-> FALSE, findings |-> answer.findings, ofCache |-> TRUE]

\* String.prototype.includes
includes(string, searchString) ==
    \E i \in 1..(Len(string) - Len(searchString) + 1) :
        SubSeq(string, i, i + Len(searchString) - 1) = searchString

\* The four filters of getFindings, each applied when its parameter is
\* given (<<>>, "" and "undefined" for a parameter that is not).
filterFindings(allFindings, params) ==
    LET OfProduct(f) == params.productName = <<>>
                        \/ trim(toLowerCase(f.product)) = trim(toLowerCase(params.productName))
        OfSeverity(f) == params.severity = "" \/ f.severity = params.severity
        OfActive(f) == params.active = "undefined" \/ f.active = (params.active = "true")
        OfTool(f) == params.toolName = <<>>
                     \/ (f.tool # <<>> /\ includes(toLowerCase(f.tool), trim(toLowerCase(params.toolName))))
    IN  SelectSeq(SelectSeq(SelectSeq(SelectSeq(allFindings, OfProduct), OfSeverity), OfActive), OfTool)

\* No filter is applied: allFindings is still the array that
\* getCachedAllFindings returned.
Unfiltered(params) ==
    params.productName = <<>> /\ params.severity = "" /\ params.active = "undefined" /\ params.toolName = <<>>

\* allFindings.sort((a, b) => cvssToNumber(b.cvssv3_score) -
\* cvssToNumber(a.cvssv3_score)): the sorted array, which is allFindings
\* itself, sorted in place.
sortByScore(allFindings) ==
    Items(sortDescending([i \in 1..Len(allFindings) |->
                             [key |-> <<NumberOfScore[allFindings[i].cvssv3_score]>>, item |-> allFindings[i]]]))

\* The parameters given to the cache-backed getFindings.
FindingsParams ==
    [productName : {<<>>, <<"m", "c", "l", "s">>}, severity : {"", "Critical"},
     active : {"undefined", "true"}, toolName : {<<>>, <<"t", "r", "i", "v", "y">>}, limit : 1..MaxLimit]

\* The calls made so far, each with whether it refreshed the cache.
CallsMade == Len(log)

\* getFindings(params) of the cache-backed service: the cache is read, and
\* refreshed if stale; the filters make arrays of their own, and without a
\* filter the sort works on the array the cache holds.
CallGetFindingsOfCache ==
    /\ CallsMade < MaxQueries
    /\ \E params \in FindingsParams, answer \in RefreshAnswers \cup {NoAnswer} :
        /\ (answer = NoAnswer) = IsFresh(findingsCache, clock)
        /\ \E got \in {getCachedAllFindings(findingsCache, clock, answer)} :
           \E sortedFindings \in {sortByScore(filterFindings(got.findings, params))} :
             /\ findingsCache' = IF got.ofCache /\ Unfiltered(params) /\ ~got.thrown
                                 THEN [got.cache EXCEPT !.findings = sortedFindings]
                                 ELSE got.cache
             /\ op' = [name |-> "getFindings", input |-> params]
             /\ out' = IF got.thrown THEN [kind |-> "error", value |-> <<>>, error |-> ServerError]
                        ELSE IF sortedFindings = <<>> THEN [kind |-> "message", value |-> <<>>, error |-> NoError]
                        ELSE [kind |-> "result",
                              value |-> [totalCount |-> Len(sortedFindings),
                                         findings |-> firstN(sortedFindings, params.limit)],
                              error |-> NoError]
             /\ log' = Append(log, [refreshed |-> answer # NoAnswer])
    /\ UNCHANGED <<clock, ticks, frames, refreshes, returned, warned>>
    /\ UNCHANGED fetchVars

\* getTopRiskyComponents(limit) of the cache-backed service.
CallGetTopRiskyComponentsOfCache ==
    /\ CallsMade < MaxQueries
    /\ \E limit \in 1..MaxLimit, answer \in RefreshAnswers \cup {NoAnswer} :
        /\ (answer = NoAnswer) = IsFresh(findingsCache, clock)
        /\ \E got \in {getCachedAllFindings(findingsCache, clock, answer)} :
             /\ findingsCache' = got.cache
             /\ op' = [name |-> "getTopRiskyComponents", input |-> [limit |-> limit]]
             /\ out' = getTopRiskyComponents(got.thrown, got.findings, limit)
             /\ log' = Append(log, [refreshed |-> answer # NoAnswer])
    /\ UNCHANGED <<clock, ticks, frames, refreshes, returned, warned>>
    /\ UNCHANGED fetchVars

QueryNext == CallGetFindingsOfCache \/ CallGetTopRiskyComponentsOfCache

(***************************************************************************)
(* Specifications: each runs one part of the service from the state after  *)
(* the module is loaded, the other parts at rest.                          *)
(***************************************************************************)
Init == CacheIdle /\ FetchIdle /\ OpsIdle

SpecCache == Init /\ [][CacheNext]_vars

SpecFetch == Init /\ [][FetchNext]_vars

SpecOps == Init /\ [][OpsNext]_vars

SpecKpi == Init /\ [][CallGetKpiData]_vars
SpecAnalyze == Init /\ [][CallAnalyzeVulnerabilityData]_vars
SpecRisk == Init /\ [][RiskNext]_vars
SpecQuery == Init /\ [][QueryNext]_vars

\* Every request of the paginated fetch is answered or fails.
SpecLoop == Init /\ [][LoopNext]_vars /\ WF_vars(LoopRespond \/ LoopFail)

(***************************************************************************)
(* Claims about the findings cache.                                        *)
(***************************************************************************)

\* C1: callers that find the cache stale or empty while a refresh is under
\* way share that refresh: at no time are two paginated fetches of the
\* findings endpoint in flight.
C1_SingleFlight == Cardinality(frames) <= 1

\* The cache has been filled by a refresh that completed.
Populated == findingsCache.lastFetched > 0

\* C2: while the cache has been filled and less than ttl has passed since
\* the refresh that filled it, no call starts a fetch, however many findings
\* that refresh yielded (zero included).
C2_NoRefetchBeforeExpiry ==
    [][(Populated /\ clock - findingsCache.lastFetched < ttl)
          => refreshes' = refreshes]_vars

\* The collection s is the validated output of a single refresh, in the
\* order the upstream served it.
OfOneRefresh(s) ==
    /\ \A i \in 1..Len(s) : s[i].rid = s[1].rid /\ s[i].at = s[1].at /\ s[i].ok
    /\ \A i, j \in 1..Len(s) : i < j => s[i].idx < s[j].idx

\* C3: the cached collection and every collection a call returns come from
\* one single refresh each, and the cached lastFetched is the timestamp of
\* the refresh the cached records come from.
C3_NoTornRead ==
    /\ OfOneRefresh(findingsCache.findings)
    /\ \A i \in 1..Len(findingsCache.findings) :
          findingsCache.findings[i].at = findingsCache.lastFetched
    /\ OfOneRefresh(returned.findings)

\* C3's case: a reader is handed the cached snapshot of one refresh while
\* another refresh, which has already received records, is in flight.
C3_Witness ==
    /\ returned.kind = "cached"
    /\ Len(returned.findings) > 0
    /\ \E f \in frames :
          /\ f.pc = "fetching"
          /\ Len(f.results) > 0
          /\ f.rid # returned.findings[1].rid

WellFormed(finding) == finding.ok

C24_RefreshOnlyAfterTtl ==
    [][LET stale == \/ findingsCache.lastFetched = 0
                    \/ clock - findingsCache.lastFetched > ttl
       IN  /\ refreshes' # refreshes => stale
           /\ returned' # returned /\ returned'.kind = "cached" => ~stale]_vars

\* C27: the step in which the paginated fetch of a refresh fails writes
\* nothing to the cache, neither findings nor lastFetched, and hands the
\* caller the error, never a collection.
C27_FailedRefreshLeavesCache ==
    [][(\E f \in frames : f.pc = "fetching" /\ frames' = frames \ {f})
          => /\ findingsCache' = findingsCache
             /\ returned' = [kind |-> "error", findings |-> <<>>]]_vars

\* C27's case: a caller was handed the error of a failed refresh while the
\* cache holds the findings of an earlier refresh, clock having advanced
\* past that refresh's timestamp.
C27_Witness ==
    /\ returned.kind = "error"
    /\ Len(findingsCache.findings) > 0
    /\ clock > findingsCache.lastFetched
    /\ refreshes = 2

\* C28: no step lowers findingsCache.lastFetched, however the refreshes
\* interleave.
C28_LastFetchedMonotonic ==
    [][findingsCache'.lastFetched >= findingsCache.lastFetched]_vars

(***************************************************************************)
(* Claims about the paginator.                                             *)
(***************************************************************************)

\* Every answer so far is a page: an object with a `results` list, or a
\* bare array.
Shaped(s) ==
    \A k \in 1..Len(s) :
        s[k].kind = "data" /\ (s[k].data.isArray \/ s[k].data.hasResults)

\* The page the upstream names after this one, Null when it names none.
LinkOf(data) == IF data.isArray \/ ~data.hasNext THEN Null ELSE data.next

\* The records of the pages, page after page.
RECURSIVE ConcatPages(_)
ConcatPages(s) ==
    IF s = <<>> THEN <<>> ELSE Head(s).data.results \o ConcatPages(Tail(s))

\* C4: over a chain of pages, defectDojoFetchAll returns the records of
\* every page in page order, has requested each page once, following the
\* `next` of the page before, and requests nothing after the page without
\* a `next`.
C4_PaginationComplete ==
    /\ fpc = "waiting" => Len(requests) = Len(served) + 1
    /\ (fpc = "returned" /\ Shaped(served)) =>
          /\ fret = [kind |-> "value", results |-> ConcatPages(served)]
          /\ Len(requests) = Len(served)
          /\ requests[1] = initialRelativeUrl
          /\ \A k \in 1..(Len(served) - 1) :
                LinkOf(served[k].data) # Null /\ requests[k + 1] = LinkOf(served[k].data)
          /\ LinkOf(served[Len(served)].data) = Null

\* C4's case: a chain of three pages, each with records, has been fetched.
C4_Witness ==
    /\ fpc = "returned"
    /\ Len(served) = 3
    /\ Shaped(served)
    /\ \A k \in 1..3 : Len(served[k].data.results) > 0

\* C6: when a request fails, the call fails with the error of that request,
\* hands over no record of the pages before, and requests nothing more.
C6_FailureAborts ==
    /\ \A k \in 1..Len(served) :
          served[k].kind = "failure" =>
             /\ k = Len(served)
             /\ Len(requests) = k
             /\ fpc = "thrown"
             /\ fret = [kind |-> "error", error |-> served[k].error]
    /\ (fpc = "thrown" /\ served = <<>>) =>
          /\ requests = <<>>
          /\ fret.kind = "error" /\ fret.error.kind = "not configured"

\* C6's case: the third request fails after two pages with records.
C6_Witness ==
    /\ fpc = "thrown"
    /\ Len(served) = 3
    /\ Len(allResults) > MaxPageSize

\* C26: every call of defectDojoFetchAll ends, by returning or by throwing,
\* when each of its requests is answered or fails, also when the upstream
\* names as next a page that was fetched already.
C26_FetchAllTerminates ==
    (fpc = "waiting") ~> (fpc \in {"returned", "thrown"})

\* The elements of s occur in t, in the order of s.
RECURSIVE ContainsInOrder(_, _)
ContainsInOrder(t, s) ==
    IF s = <<>> THEN TRUE
    ELSE IF t = <<>> THEN FALSE
    ELSE IF Head(s) = Head(t) THEN ContainsInOrder(Tail(t), Tail(s))
    ELSE ContainsInOrder(Tail(t), s)

\* C29: what defectDojoFetchAll returns contains, in order, the records of
\* every page it was served, whatever the shape of the last page, an object
\* with neither `results` nor `next` included.
C29_EarlierPagesKept ==
    fpc = "returned" => ContainsInOrder(fret.results, ConcatPages(served))

(***************************************************************************)
(* Claims about the operations and the product resolver.                   *)
(***************************************************************************)

ExportedOperations ==
    {"getFindings", "getVulnerabilityCountsByProduct", "getTotalFindingCount", "getProductKpiData"}

\* C7: every exported operation ends, for every input and every upstream
\* outcome, by returning a result or a failure payload; none lets an
\* exception reach its caller.
C7_NoExceptionEscapes ==
    op.name \in ExportedOperations => out.kind \in {"result", "message", "error"}

\* C8: a transport failure (a response that is not ok, or a missing
\* credential) met by an upstream call of an operation reaches the caller
\* of the operation as a failure carrying its status and body; it never
\* becomes a "not found", an empty product list or a record of zero counts.
C8_TransportFailureSurfaces ==
    \A i \in 1..Len(log) :
        ~log[i].ok => /\ out.kind \in {"error", "throw"}
                      /\ out.error = log[i].error

\* The table entries the normalized name matches, by key or by normalized name.
StaticHits(productName) ==
    LET normalized == stripSeparators(toLowerCase(trim(productName)))
    IN  {i \in 1..Len(PRODUCT_MAP) :
            \/ PRODUCT_MAP[i].key = normalized
            \/ stripSeparators(toLowerCase(PRODUCT_MAP[i].name)) = normalized}

\* C9: when the normalized name (lower-cased, whitespace, hyphens and
\* underscores removed) matches a key of the static table or a normalized
\* product name of the table, getProductInfoByName returns that entry and
\* makes no upstream call; it makes an upstream call only when no entry of
\* the table matches.
C9_StaticTableFirst ==
    op.name = "getProductInfoByName" =>
        LET hits == StaticHits(op.input.productName)
        IN  /\ hits # {} =>
                /\ out.value.found
                /\ \E i \in hits :
                      out.value.product = [id |-> PRODUCT_MAP[i].id, name |-> PRODUCT_MAP[i].name]
                /\ log = <<>>
            /\ log # <<>> => hits = {}

\* A name spelled unlike any key or name of the table resolved from the
\* table, while the upstream was out of reach.
C9_Witness ==
    /\ op.name = "getProductInfoByName"
    /\ \A i \in 1..Len(PRODUCT_MAP) :
          op.input.productName \notin {PRODUCT_MAP[i].key, PRODUCT_MAP[i].name}
    /\ StaticHits(op.input.productName) # {}
    /\ ~op.env.configured
    /\ out.value.found
    /\ log = <<>>

\* C10: a name that is the decimal id of an entry of the static table
\* resolves to that entry, as the first stage and without an upstream call.
C10_NumericIdFirst ==
    op.name = "getProductInfoByName" =>
        \A i \in 1..Len(PRODUCT_MAP) :
            op.input.productName = String(PRODUCT_MAP[i].id) =>
                /\ out.value.found
                /\ out.value.product = [id |-> PRODUCT_MAP[i].id, name |-> PRODUCT_MAP[i].name]
                /\ log = <<>>

\* hay contains needle, whatever the case of either.
ContainsIgnoringCase(hay, needle) ==
    \E i \in 1..(Len(hay) - Len(needle) + 1) :
        toLowerCase(SubSeq(hay, i, i + Len(needle) - 1)) = toLowerCase(needle)

\* C11: when no stage of the static table matches and the live lookup is
\* answered, the resolver returns the first upstream product whose name
\* contains the given name, case-insensitively, and returns null only when
\* no upstream product name contains it.
C11_LiveLookupContains ==
    (/\ op.name = "getProductInfoByName"
     /\ Len(log) = 1
     /\ log[1].ok) =>
        LET name == op.input.productName
            containing == {i \in 1..Len(op.env.products) :
                              ContainsIgnoringCase(op.env.products[i].name, name)}
        IN  IF containing = {} THEN ~out.value.found
            ELSE /\ out.value.found
                 /\ out.value.product = op.env.products[FirstIndex(containing)]

\* The findings queries among the upstream calls of the operation.
FindingsQueries == {i \in 1..Len(log) : log[i].query.endpoint = "findings"}

ToolKeys ==
    {"contrast", "rapid7", "sonarqube", "dependency_track", "jfrog", "patient_monitor",
     "vega_firmware", "mcls_ios", "hardware_pentest", "ad_hoc", "mcls_android", "dt_azure",
     "dt_dlut", "clem_ios_dt", "clem_android_dt", "clem_connector_dt", "ev_icd_dt",
     "lmm_dt", "mclh_ios_dt", "mclh_android_dt", "mcls_ios_dt", "mcls_android_dt",
     "cloud_guard", "smart_sync"}

\* C13: getFindings resolves a tool name before it queries: a tool name
\* that resolves to no tool gives a "not found" result, and no findings
\* query is filtered by the name as it was given.
C13_ToolNameResolved ==
    (/\ op.name = "getFindings"
     /\ op.input.valid
     /\ op.input.toolName # ""
     /\ \A key \in ToolKeys : key # op.input.toolName) =>
        /\ out.kind = "message"
        /\ out.value.text = "not found"
        /\ \A i \in FindingsQueries : log[i].query.tool # op.input.toolName

\* score of a record of the result, an absent score counting as 0.
ScoreOf(view) == IF view.cvssv3_score = NotAvailable THEN 0 ELSE view.cvssv3_score

\* C14: the records getFindings returns are in descending order of CVSS
\* score, an absent score counting as 0, and they are the first `limit`
\* records of that order over all the matching records.
C14_SortedByCvss ==
    (op.name = "getFindings" /\ out.kind = "result") =>
        LET shown == out.value.findings
            matching == FindingsFor(op.env, op.input.severity, op.input.toolName)
        IN  /\ \A i \in 1..(Len(shown) - 1) : ScoreOf(shown[i]) >= ScoreOf(shown[i + 1])
            /\ \A i \in 1..Len(shown) : \A j \in 1..Len(matching) :
                  (\A k \in 1..Len(shown) : shown[k].id # matching[j].id)
                      => matching[j].cvssv3_score <= ScoreOf(shown[i])

\* C30: getTotalFindingCount called with a product name returns a count
\* only of a query restricted to a product: when the name does not resolve
\* the outcome is a not-found or failure payload, never the count of the
\* findings of all products.
C30_CountRestrictedToProduct ==
    (op.name = "getTotalFindingCount" /\ op.input.productName # <<>> /\ out.kind = "result")
        => /\ log[Len(log)].query.endpoint = "findings"
           /\ log[Len(log)].query.product # 0

(***************************************************************************)
(* Claims about the dashboard flow.                                        *)
(***************************************************************************)

\* C15: topVulnerableProducts is in descending order of the count and,
\* among products of equal count, in ascending order of the product name,
\* so that it does not depend on the order in which the findings arrive.
C15_RankingTieBreak ==
    op.name = "getKpiData" =>
        LET top == out.value.topVulnerableProducts
        IN  \A i \in 1..(Len(top) - 1) :
                \/ top[i].vulnerabilities > top[i + 1].vulnerabilities
                \/ /\ top[i].vulnerabilities = top[i + 1].vulnerabilities
                   /\ localeCompareLess(top[i].product, top[i + 1].product)

\* C16: in getKpiData a finding without a resolvable product (no nested
\* product name, no product_id of the static table) is counted in the
\* histogram under its severity, if that is one of the five, and in no
\* product's total; a finding of any other severity is counted in no
\* bucket of the histogram.
C16_UnresolvedProductCounted ==
    (op.name = "getKpiData" /\ op.env.allFindings # <<>>) =>
        LET all == op.env.allFindings
            histogram == out.value.vulnerabilitiesBySeverity
            top == out.value.topVulnerableProducts
        IN  /\ Len(histogram) = Len(SeverityKeys)
            /\ \A i \in 1..Len(histogram) :
                  /\ histogram[i].severity = SeverityKeys[i]
                  /\ histogram[i].count =
                        Cardinality({j \in 1..Len(all) : all[j].severity = SeverityKeys[i]})
            /\ \A i \in 1..Len(top) :
                  top[i].vulnerabilities =
                      Cardinality({j \in 1..Len(all) : KpiProductName(all[j]) = top[i].product})

(***************************************************************************)
(* Claims about analyzeVulnerabilityData.                                  *)
(***************************************************************************)

\* An analysis of that type returned its results, the product list having
\* been answered.
Analysed(analysisType) ==
    /\ op.name = "analyzeVulnerabilityData"
    /\ op.input.analysisType = analysisType
    /\ out.kind = "result"
    /\ log[Len(log)].ok

\* The findings the upstream answered the analysis with.
Answered == AnalysisFindingsFor(op.env, log[Len(log) - 1].query.product)

\* The named products the upstream holds.
NamedProducts == {LiveProducts[i] : i \in {j \in 1..Len(LiveProducts) : LiveProducts[j].name # <<>>}}

ResultNames == {out.value.results[j].name : j \in 1..Len(out.value.results)}

\* C17: a finding is attributed to its product whether its engagement
\* carries the product as a nested {id, name} object or as a bare product
\* id: when product_risk returns all its entries, every answered finding of
\* a product the upstream holds is counted in the entry of that product.
C17_BothShapesAttributed ==
    Analysed("product_risk") /\ Len(Answered) <= op.input.limit
        => \A i \in 1..Len(Answered) : \A p \in NamedProducts :
              UpstreamProductId(Answered[i]) = p.id => p.name \in ResultNames

\* The name findingsWithDetails gives the product of a finding: the name
\* the product list has for the product_id of its engagement.
ResolvedProducts(f) ==
    {p.name : p \in {q \in NamedProducts : log[Len(log)].ok /\ q.id = f.product_id}}

\* The resolved products of the answered findings of a component.
ProductsOf(component) ==
    UNION {ResolvedProducts(Answered[i]) : i \in {j \in 1..Len(Answered) : ComponentOf(Answered[j]) = component}}

\* The names of the products the analysis was asked about and that resolved.
RequestedProducts ==
    IF op.input.productName = <<>> THEN {}
    ELSE LET found == ResolveAll(split(op.input.productName), op.env, 1).products
         IN  {found[i].name : i \in 1..Len(found)}

\* The components cross_product_component_usage is to select.
SharedComponents ==
    {component \in {ComponentOf(Answered[i]) : i \in 1..Len(Answered)} \ {Unknown} :
        IF RequestedProducts = {} THEN Cardinality(ProductsOf(component)) > 1
        ELSE RequestedProducts \subseteq ProductsOf(component)}

C20_UnknownExcluded ==
    /\ Analysed("component_risk") \/ Analysed("cross_product_component_usage")
          => Unknown \notin ResultNames
    /\ Analysed("tool_comparison")
          => \A j \in 1..Len(out.value.results) : out.value.results[j].mostAffectedComponent # Unknown

(***************************************************************************)
(* Claims about the component risk analyses.                               *)
(***************************************************************************)

\* The sum of the scores at the places S of a sequence of scores.
RECURSIVE SumAt(_, _)
SumAt(scores, S) ==
    IF S = {} THEN 0
    ELSE LET i == CHOOSE j \in S : TRUE IN scores[i] + SumAt(scores, S \ {i})

\* The risk shares the operation reported.
ReportedShares ==
    IF op.name = "getTopRiskyComponents"
    THEN {out.value.topComponents[j].riskReductionPercent : j \in 1..Len(out.value.topComponents)}
    ELSE {out.value.impact.riskReductionPercent}

C21_OpenClosedFromCounts ==
    op.name = "getKpiData" /\ ~op.env.rejected
        => out.value.openVsClosed = op.env.openClosedCounts

\* C22: analyzeVulnerabilityData, given an analysis type that is none of
\* the five, returns the error payload that says the type is not
\* supported, whatever the product names and whatever findings, none
\* included, the upstream answers.
C22_UnsupportedTypeRejected ==
    op.name = "analyzeVulnerabilityData" /\ op.input.analysisType \notin AnalysisTypes
        => out.kind = "error" /\ out.error = NotImplemented

\* C23: when analyzeVulnerabilityData is given several product names of
\* which one at least does not resolve, it returns the not-found error and
\* analyses nothing.
C23_UnresolvedNameShortCircuits ==
    op.name = "analyzeVulnerabilityData"
        => LET productNames == split(op.input.productName)
               found == ResolveAll(productNames, op.env, 1).products
           IN  Len(productNames) > 1 /\ Len(found) < Len(productNames)
                  => out.kind = "error" /\ out.error = NoneFound

(***************************************************************************)
(* Claims about the cache-backed service.                                  *)
(***************************************************************************)

\* C25: no query and no aggregation changes the cached collection: a call
\* that makes no refresh leaves the findings of the cache as they were,
\* content and order, whatever filters it is given, none included.
C25_QueriesLeaveCache ==
    [][log' # log /\ ~log'[Len(log')].refreshed
          => findingsCache'.findings = findingsCache.findings]_vars

====
